---- MODULE Spec2Model ----
(***************************************************************************)
(* The meddler broker: the session manager (a map from agent name to a     *)
(* tokio broadcast channel), the storage contracts as PgStore implements   *)
(* them, and the HTTP handlers that use both.  Handlers that persist and   *)
(* publish a message are modelled step by step, one step per awaited store *)
(* or session call, so that concurrent requests interleave as they do on   *)
(* the tokio runtime.                                                      *)
(***************************************************************************)
EXTENDS Integers, Sequences, FiniteSets, TLC

(* ------------------------------ bounds -------------------------------- *)

\* Events a channel retains in the model.  The code asks for
\* CHANNEL_CAPACITY; the model scales the ring down to keep overflow in reach.
MaxCapacity == 2
\* Messages the message store accepts before the model stops sending.
MaxMsg == 2
\* Send requests (relay or tool) in flight at once.
MaxInFlight == 2
\* Receivers (SSE streams) opened over a run.
MaxRx == 1
\* Channels created over a run (first subscribe of a name, or after remove).
MaxChan == 1
\* Tasks created over a run.
MaxTask == 1
\* The same for the runs of SpecFanout, which start with the workers
\* registered and only relay messages to one worker: messages sent, requests
\* in flight, streams opened, channels created.
MaxFanMsg == 4
MaxFanInFlight == 2
MaxFanRx == 2
MaxFanChan == 2
\* Clock ticks in the runs of SpecRegistry, and streams opened in them.
MaxRegNow == 2
MaxRegRx == 1
\* Clock ticks in the runs of SpecTask.
MaxTaskNow == 2
\* The runs of SpecStatus: the width the model gives the i64 of the code, the
\* clock readings per second, and the latest clock reading.
MaxIntBits == 4
MaxSubsec == 2
MaxStatusTime == 6
\* Messages stored and streams opened in the runs of SpecRpc.
MaxRpcMsg == 2
MaxRpcRx == 1
\* The runs of SpecPush: streams opened, messages relayed, and events a
\* channel accepts while JSON-RPC values are still sent.
MaxPushRx == 2
MaxPushMsg == 2
MaxPushRpc == 2
\* The same for the runs of SpecLock: SessionManager calls in progress at
\* once, receivers, and events published per channel.
MaxLockCalls == 2
MaxLockRx == 2
MaxLockMsg == 1

(* ----------------------------- constants ------------------------------ *)

\* broadcast::channel(100)
CHANNEL_CAPACITY == 100

MCP_ORCHESTRATOR_NAME == "__orchestrator__"

Min(a, b) == IF a < b THEN a ELSE b
Max(a, b) == IF a > b THEN a ELSE b

\* The capacity of a channel of the model.
Capacity == Min(CHANNEL_CAPACITY, MaxCapacity)

\* Worker names a client may use; a name is registered only after
\* POST /agent/register.
Workers == {"a", "b"}
Names == Workers \cup {MCP_ORCHESTRATOR_NAME}
Descriptions == {"x"}
\* The worker that posts to /agent/message in the model.
Senders == {"a"}

\* Option<T>: None, or Some(v).
None == <<>>
Some(v) == <<v>>
IsSome(o) == o # None
Unwrap(o) == o[1]

\* The text of a task_id argument: 0 stands for a string that is no UUID,
\* k > 0 for the UUID of task k (which names no task until task k is created).
TaskTexts == 0 .. MaxTask
TaskArgs == {None} \cup {Some(t) : t \in TaskTexts}
\* s.parse::<uuid::Uuid>(): Ok for a positive text.
parse_uuid_ok(s) == s > 0
Budgets == {Some(1)}

Range(s) == {s[i] : i \in DOMAIN s}

\* i64, at the width of the model: two's complement on IntBits bits.
I64_BITS == 64
IntBits == Min(I64_BITS, MaxIntBits)
IntMin == -(2 ^ (IntBits - 1))
IntMax == 2 ^ (IntBits - 1) - 1
InInt(x) == IntMin <= x /\ x <= IntMax
\* The value a wrapping operation leaves for the exact result x.
wrapping(x) == ((x - IntMin) % (2 ^ IntBits)) + IntMin

\* A DateTime<Utc> is a count of clock readings, SubsecPerSec of them to the
\* second.
SubsecPerSec == MaxSubsec
\* TimeDelta::num_seconds: the whole seconds of a difference d of two
\* DateTimes, rounded towards zero.
num_seconds(d) ==
    IF d >= 0 THEN d \div SubsecPerSec ELSE -((-d) \div SubsecPerSec)

VARIABLES
    agents,     \* agents table: name -> Agent
    messages,   \* messages table, in insertion order
    tasks,      \* tasks table: TaskId -> Task
    now,        \* the wall clock (NOW(), Utc::now())
    sessions,   \* SessionManager.sessions: name -> channel (its Sender)
    chans,      \* the broadcast channels ever created (shared state of each)
    rxs,        \* the receivers ever created, each with the SSE stream on it
                \* (start and end are history: the events published to its
                \* channel before it was created and before it ended)
    reqs,       \* send requests in flight, each at an await point
    last,       \* the result of the step just taken
    published,  \* history: per channel, the events send() accepted, in order
    returned    \* history: the messages whose send has answered its caller

vars == <<agents, messages, tasks, now, sessions, chans, rxs, reqs, last,
          published, returned>>

(* ------------------------ tokio broadcast channel ---------------------- *)

\* SseEvent
AgentMessage(m) == [kind |-> "AgentMessage", msg |-> m]
JsonRpc(v) == [kind |-> "JsonRpc", value |-> v]

\* broadcast::channel(100).0: an empty ring, tail position 0; the first
\* receiver (.1) is dropped at once, so no receiver is attached.
new_channel == [buf |-> <<>>, pos |-> 0, closed |-> FALSE]

\* Receivers attached to channel c.
rx_cnt(c) == Cardinality({r \in DOMAIN rxs : rxs[r].chan = c /\ rxs[r].alive})

\* Position of the oldest event channel record ch retains.
oldest(ch) == ch.pos - Len(ch.buf)

\* push with the new event written before the retained ones.
push_front(buf, ev) ==
    LET b == <<ev>> \o buf
    IN  IF Len(b) > Capacity THEN SubSeq(b, 1, Capacity) ELSE b

\* push that leaves a full ring as it is, so the new event is the one lost.
push_keep_oldest(buf, ev) ==
    IF Len(buf) >= Capacity THEN buf ELSE Append(buf, ev)

\* The ring after one more event: the oldest slot is overwritten when full.
push(buf, ev) ==
    LET b == Append(buf, ev)
    IN  IF Len(b) > Capacity THEN Tail(b) ELSE b

\* send that writes the event to the ring of every channel with a receiver.
send_every_channel(c, ev) ==
    IF rx_cnt(c) = 0
    THEN [ok |-> FALSE, chans |-> chans]
    ELSE [ok |-> TRUE,
          chans |-> [d \in DOMAIN chans |->
                        IF d = c \/ rx_cnt(d) > 0
                        THEN [chans[d] EXCEPT !.buf = push(@, ev),
                                              !.pos = @ + 1]
                        ELSE chans[d]]]

\* Sender::send(ev) on channel c: Err (and nothing stored) without receivers,
\* otherwise the event goes to the tail.  Never waits.
send(c, ev) ==
    IF rx_cnt(c) = 0
    THEN [ok |-> FALSE, chans |-> chans]
    ELSE [ok |-> TRUE,
          chans |-> [chans EXCEPT ![c].buf = push(@, ev), ![c].pos = @ + 1]]

(* --------------------------- SessionManager ---------------------------- *)

\* subscribe whose receiver starts at the oldest retained event.
subscribe_from_oldest(name) ==
    LET fresh  == name \notin DOMAIN sessions
        c      == IF fresh THEN Len(chans) + 1 ELSE sessions[name]
        chans1 == IF fresh THEN Append(chans, new_channel) ELSE chans
    IN  [sessions |-> IF fresh THEN sessions @@ (name :> c) ELSE sessions,
         chans    |-> chans1,
         rx       |-> [chan |-> c, next |-> oldest(chans1[c]), alive |-> TRUE]]

\* subscribe(name): the channel of name, created when absent, and a new
\* receiver on it that starts at the tail.
subscribe(name) ==
    LET fresh  == name \notin DOMAIN sessions
        c      == IF fresh THEN Len(chans) + 1 ELSE sessions[name]
        chans1 == IF fresh THEN Append(chans, new_channel) ELSE chans
    IN  [sessions |-> IF fresh THEN sessions @@ (name :> c) ELSE sessions,
         chans    |-> chans1,
         rx       |-> [chan |-> c, next |-> chans1[c].pos, alive |-> TRUE]]

\* notify that reports success whenever the name has a channel.
notify_ignores_receivers(agent_name, message) ==
    IF agent_name \in DOMAIN sessions
    THEN [ok |-> TRUE,
          chans |-> send(sessions[agent_name], AgentMessage(message)).chans]
    ELSE [ok |-> FALSE, chans |-> chans]

\* notify(agent_name, message)
notify(agent_name, message) ==
    IF agent_name \in DOMAIN sessions
    THEN send(sessions[agent_name], AgentMessage(message))
    ELSE [ok |-> FALSE, chans |-> chans]

\* send_jsonrpc(name, value)
send_jsonrpc(name, value) ==
    IF name \in DOMAIN sessions
    THEN send(sessions[name], JsonRpc(value))
    ELSE [ok |-> FALSE, chans |-> chans]

\* remove that takes the name out of the map while the channel stays open.
remove_leaves_open(name) ==
    [sessions |-> [n \in DOMAIN sessions \ {name} |-> sessions[n]],
     chans    |-> chans]

\* remove(name): the Sender leaves the map and is dropped, which closes the
\* channel for the receivers still on it.
remove(name) ==
    [sessions |-> [n \in DOMAIN sessions \ {name} |-> sessions[n]],
     chans    |-> IF name \in DOMAIN sessions
                  THEN [chans EXCEPT ![sessions[name]].closed = TRUE]
                  ELSE chans]

\* is_connected(name)
is_connected(name) == name \in DOMAIN sessions

(* ------------------------------ PgStore -------------------------------- *)

\* Uuid::new_v4() for the row of a new agent: a value no other row has.  The
\* model draws it by name, so that ids do not depend on registration order.
new_uuid(name) ==
    IF name = MCP_ORCHESTRATOR_NAME THEN 1 ELSE IF name = "a" THEN 2 ELSE 3

\* register that replaces a conflicting row by a new one with the id of the
\* call.
register_replaces_row(name, description) ==
    LET id == IF name \in DOMAIN agents THEN agents[name].id + 3
              ELSE new_uuid(name)
    IN  [n \in DOMAIN agents \cup {name} |->
            IF n = name
            THEN [id |-> id, name |-> name, description |-> description,
                  registered_at |-> now, last_seen_at |-> now]
            ELSE agents[n]]

\* register that returns a conflicting row as it is.
register_keeps_row(name, description) ==
    IF name \in DOMAIN agents THEN agents
    ELSE agents @@ (name :> [id            |-> new_uuid(name),
                             name          |-> name,
                             description   |-> description,
                             registered_at |-> now,
                             last_seen_at  |-> now])

\* AgentRegistry::register: INSERT ... ON CONFLICT (name) DO UPDATE.  A new
\* row gets a fresh id; a conflicting one keeps its id and has description
\* and last_seen_at refreshed.
register(name, description) ==
    IF name \in DOMAIN agents
    THEN [agents EXCEPT ![name].description = description,
                        ![name].last_seen_at = now]
    ELSE agents @@ (name :> [id            |-> new_uuid(name),
                             name          |-> name,
                             description   |-> description,
                             registered_at |-> now,
                             last_seen_at  |-> now])

\* The Agent register returns: RETURNING id, name, description, ... of the
\* row inserted or updated.
register_returning(name, description) == register(name, description)[name]

\* AgentRegistry::get_by_name: the row, or AgentNotFound.
get_by_name_ok(name) == name \in DOMAIN agents
get_by_name(name) == agents[name]

\* AgentRegistry::touch: UPDATE agents SET last_seen_at = NOW() WHERE id = $1.
touch(id) ==
    [n \in DOMAIN agents |->
        IF agents[n].id = id THEN [agents[n] EXCEPT !.last_seen_at = now]
        ELSE agents[n]]

\* MessageStore::create: the row inserted, with a fresh id and created_at.
new_message(params) ==
    [id           |-> Len(messages) + 1,
     sender_id    |-> params.sender_id,
     recipient_id |-> params.recipient_id,
     task_id      |-> params.task_id,
     content      |-> params.content,
     created_at   |-> now]

\* create that returns the row without storing it.
message_create_lost(params) == messages

\* create that stores the row in place of the rows of the same sender.
message_create_replaces(params) ==
    Append(SelectSeq(messages, LAMBDA m : m.sender_id # params.sender_id),
           new_message(params))

message_create(params) == Append(messages, new_message(params))

\* matches with the sender parameter compared to recipient_id.
matches_swapped(filter, m) ==
    /\ filter.task_id = None \/ m.task_id = filter.task_id
    /\ filter.sender_id = None \/ m.recipient_id = Unwrap(filter.sender_id)
    /\ filter.recipient_id = None \/ m.recipient_id = Unwrap(filter.recipient_id)

\* WHERE ($1 IS NULL OR task_id = $1) AND ($2 IS NULL OR sender_id = $2)
\*   AND ($3 IS NULL OR recipient_id = $3)
matches(filter, m) ==
    /\ filter.task_id = None \/ m.task_id = filter.task_id
    /\ filter.sender_id = None \/ m.sender_id = Unwrap(filter.sender_id)
    /\ filter.recipient_id = None \/ m.recipient_id = Unwrap(filter.recipient_id)

\* ORDER BY created_at DESC.
RECURSIVE order_by_created_at_desc(_)
order_by_created_at_desc(rows) ==
    IF rows = << >> THEN << >>
    ELSE LET m == rows[Len(rows)]
             sorted == order_by_created_at_desc(SubSeq(rows, 1, Len(rows) - 1))
             k == Cardinality({i \in DOMAIN sorted :
                                  sorted[i].created_at >= m.created_at})
         IN  SubSeq(sorted, 1, k) \o <<m>> \o SubSeq(sorted, k + 1, Len(sorted))

\* ORDER BY created_at ASC: the rows by ascending created_at, rows of equal
\* created_at in the order of the table.
RECURSIVE order_by_created_at(_)
order_by_created_at(rows) ==
    IF rows = << >> THEN << >>
    ELSE LET m == rows[Len(rows)]
             sorted == order_by_created_at(SubSeq(rows, 1, Len(rows) - 1))
             k == Cardinality({i \in DOMAIN sorted :
                                  sorted[i].created_at <= m.created_at})
         IN  SubSeq(sorted, 1, k) \o <<m>> \o SubSeq(sorted, k + 1, Len(sorted))

\* MessageStore::query: SELECT ... WHERE ... ORDER BY created_at ASC.
query(filter) ==
    order_by_created_at(SelectSeq(messages, LAMBDA m : matches(filter, m)))

\* TaskStore::create
task_create(params) ==
    LET id == Cardinality(DOMAIN tasks) + 1
    IN  tasks @@ (id :> [id               |-> id,
                         title            |-> params.title,
                         created_by       |-> params.created_by,
                         time_budget_secs |-> params.time_budget_secs,
                         started_at       |-> None,
                         created_at       |-> now])

\* TaskStore::get: the row, or TaskNotFound.
get_ok(id) == id \in DOMAIN tasks
get(id) == tasks[id]

\* mark_started that sets started_at whether or not it was set.
mark_started_overwrites(id) ==
    [t \in DOMAIN tasks |->
        IF t = id THEN [tasks[t] EXCEPT !.started_at = Some(now)]
        ELSE tasks[t]]

\* mark_started that inserts a started row for an id that names no task.
mark_started_upserts(id) ==
    [t \in DOMAIN tasks \cup {id} |->
        IF t \notin DOMAIN tasks
        THEN [id |-> id, title |-> "", created_by |-> 0,
              time_budget_secs |-> None, started_at |-> Some(now),
              created_at |-> now]
        ELSE IF t = id /\ tasks[t].started_at = None
        THEN [tasks[t] EXCEPT !.started_at = Some(now)]
        ELSE tasks[t]]

\* TaskStore::mark_started:
\* UPDATE tasks SET started_at = NOW() WHERE id = $1 AND started_at IS NULL.
mark_started(id) ==
    [t \in DOMAIN tasks |->
        IF t = id /\ tasks[t].started_at = None
        THEN [tasks[t] EXCEPT !.started_at = Some(now)]
        ELSE tasks[t]]

\* compute that clamps a negative elapsed time to zero before subtracting.
compute_clamps_elapsed(task, t, overflow_checks) ==
    LET elapsed == IF task.started_at = None THEN None
                   ELSE Some(Max(num_seconds(t - Unwrap(task.started_at)), 0))
    IN  [panicked |-> FALSE, task |-> task, elapsed_secs |-> elapsed,
         remaining_secs |->
            IF IsSome(elapsed) /\ IsSome(task.time_budget_secs)
            THEN Some(Max(wrapping(Unwrap(task.time_budget_secs)
                                     - Unwrap(elapsed)), 0))
            ELSE None]

\* TaskStatus::compute(task, now) at time t:
\*   elapsed_secs   = started_at.map(|started| (now - started).num_seconds())
\*   remaining_secs = Some((budget - elapsed).max(0)) when both are set.
\* budget - elapsed is an i64 subtraction: when the exact difference is out
\* of range, a build with overflow checks panics and a build without them
\* wraps.
compute(task, t, overflow_checks) ==
    LET elapsed == IF task.started_at = None THEN None
                   ELSE Some(num_seconds(t - Unwrap(task.started_at)))
        both    == IsSome(elapsed) /\ IsSome(task.time_budget_secs)
        exact   == IF both
                   THEN Unwrap(task.time_budget_secs) - Unwrap(elapsed) ELSE 0
    IN  IF both /\ ~InInt(exact) /\ overflow_checks
        THEN [panicked |-> TRUE, task |-> task, elapsed_secs |-> elapsed,
              remaining_secs |-> None]
        ELSE [panicked |-> FALSE, task |-> task, elapsed_secs |-> elapsed,
              remaining_secs |->
                 IF both THEN Some(Max(wrapping(exact), 0)) ELSE None]

\* TaskStore::get_status: get, then compute at the current wall clock.
get_status(id, overflow_checks) == compute(get(id), now, overflow_checks)

(* ------------------------------ handlers ------------------------------- *)

Idle == [pc |-> "idle"]
Internal == [op |-> "internal"]

InFlight == {s \in DOMAIN reqs : reqs[s].pc # "idle"}

\* A new request takes the lowest free slot.
FreeSlot(s) ==
    /\ reqs[s].pc = "idle"
    /\ \A t \in 1 .. (s - 1) : reqs[t].pc # "idle"

\* The response of a send handler that ends without a message.
send_failure(path, code) ==
    [op |-> IF path = "relay" THEN "agent_message" ELSE "send_message",
     ok |-> FALSE,
     status |-> IF path = "relay" THEN code ELSE 200,
     code |-> IF path = "relay" THEN 0 ELSE -32603]

\* POST /mcp with an id, up to the dispatch: the orchestrator is registered.
ensure_orchestrator ==
    register(MCP_ORCHESTRATOR_NAME, "MCP orchestrator (Cursor/Claude Desktop)")

\* let _ = state.agent_registry.register(..).await: the registry after the
\* call, which either wrote the row or failed with a storage error that the
\* handler discards.
ensure_orchestrator_discarded == {ensure_orchestrator, agents}

\* The body of the response to POST /agent/register: {agent_id, name} of the
\* Agent that register returned.
register_response(agent) ==
    [op |-> "agent_register", ok |-> TRUE, status |-> 200,
     agent_id |-> agent.id, name |-> agent.name]

\* POST /agent/register
agent_register(name, description) ==
    /\ agents' = register(name, description)
    /\ last' = register_response(register_returning(name, description))
    /\ UNCHANGED <<messages, tasks, now, sessions, chans, rxs, reqs,
                   published, returned>>

\* The response to GET /agent/sse/{name}: 200 with the event stream, or 404.
sse_response(name, found) ==
    [op |-> "agent_sse", name |-> name, ok |-> found,
     status |-> IF found THEN 200 ELSE 404]

\* agent_sse that subscribes before it looks the name up.
agent_sse_subscribes_first(name) ==
    /\ LET sub == subscribe(name)
       IN  /\ agents' = IF get_by_name_ok(name)
                        THEN touch(get_by_name(name).id) ELSE agents
           /\ sessions' = sub.sessions
           /\ chans' = sub.chans
           /\ published' = IF Len(sub.chans) > Len(chans)
                           THEN Append(published, <<>>) ELSE published
           /\ rxs' = IF get_by_name_ok(name)
                     THEN Append(rxs, [name  |-> name,
                                       kind  |-> "agent",
                                       chan  |-> sub.rx.chan,
                                       next  |-> sub.rx.next,
                                       alive |-> sub.rx.alive,
                                       start |-> IF name \in DOMAIN sessions
                                                 THEN Len(published[
                                                          sessions[name]])
                                                 ELSE 0,
                                       end   |-> 0,
                                       out   |-> <<>>])
                     ELSE rxs
    /\ last' = sse_response(name, get_by_name_ok(name))
    /\ UNCHANGED <<messages, tasks, now, reqs, returned>>

\* GET /agent/sse/{name}: 404 for an unknown name; otherwise touch, subscribe
\* and hand the receiver to a stream that has emitted nothing yet.
agent_sse(name) ==
    /\ IF get_by_name_ok(name)
       THEN LET sub == subscribe(name)
            IN  /\ agents' = touch(get_by_name(name).id)
                /\ sessions' = sub.sessions
                /\ chans' = sub.chans
                /\ published' = IF Len(sub.chans) > Len(chans)
                                THEN Append(published, <<>>) ELSE published
                /\ rxs' = Append(rxs, [name  |-> name,
                                       kind  |-> "agent",
                                       chan  |-> sub.rx.chan,
                                       next  |-> sub.rx.next,
                                       alive |-> sub.rx.alive,
                                       start |-> IF name \in DOMAIN sessions
                                                 THEN Len(published[
                                                          sessions[name]])
                                                 ELSE 0,
                                       end   |-> 0,
                                       out   |-> <<>>])
       ELSE UNCHANGED <<agents, sessions, chans, rxs, published>>
    /\ last' = sse_response(name, get_by_name_ok(name))
    /\ UNCHANGED <<messages, tasks, now, reqs, returned>>

\* A worker stream that emits nothing for any event.
agent_stream_item_none(evt) == << >>

\* A worker stream that emits what any event carries.
agent_stream_item_any(evt) ==
    IF evt.kind = "AgentMessage" THEN <<evt.msg>> ELSE <<evt.value>>

\* What the worker stream makes of one event: a message event carrying the
\* Message for an AgentMessage, nothing for a JsonRpc event.
agent_stream_item(evt) ==
    IF evt.kind = "AgentMessage" THEN <<evt.msg>> ELSE <<>>

\* A worker stream that ends when its receiver reports Lagged.
stream_poll_ends_on_lag(r) ==
    LET rx == rxs[r]
        ch == chans[rx.chan]
    IN  /\ rx.kind = "agent"
        /\ rx.alive
        /\ rx.next < ch.pos \/ ch.closed
        /\ rxs' = [rxs EXCEPT ![r] =
              IF rx.next < oldest(ch)
              THEN [rx EXCEPT !.alive = FALSE,
                              !.end = Len(published[rx.chan])]
              ELSE IF rx.next < ch.pos
              THEN [rx EXCEPT !.next = @ + 1,
                              !.out = @ \o agent_stream_item(
                                            ch.buf[rx.next - oldest(ch) + 1])]
              ELSE [rx EXCEPT !.alive = FALSE,
                              !.end = Len(published[rx.chan])]]
        /\ last' = Internal
        /\ UNCHANGED <<agents, messages, tasks, now, sessions, chans, reqs,
                       published, returned>>

\* One poll of the worker stream on receiver r (BroadcastStream over
\* Receiver::recv, then the filter_map of the handler):
\*   behind the ring: Lagged, the receiver jumps to the oldest retained
\*     event and result.ok() drops the error, so nothing is emitted;
\*   an event at next: it is taken and the stream item emitted;
\*   nothing left and the channel closed: the stream ends and drops r.
\* Nothing left on an open channel: the poll is pending (not enabled).
stream_poll(r) ==
    LET rx == rxs[r]
        ch == chans[rx.chan]
    IN  /\ rx.kind = "agent"
        /\ rx.alive
        /\ rx.next < ch.pos \/ ch.closed
        /\ rxs' = [rxs EXCEPT ![r] =
              IF rx.next < oldest(ch)
              THEN [rx EXCEPT !.next = oldest(ch)]
              ELSE IF rx.next < ch.pos
              THEN [rx EXCEPT !.next = @ + 1,
                              !.out = @ \o agent_stream_item(
                                            ch.buf[rx.next - oldest(ch) + 1])]
              ELSE [rx EXCEPT !.alive = FALSE,
                              !.end = Len(published[rx.chan])]]
        /\ last' = Internal
        /\ UNCHANGED <<agents, messages, tasks, now, sessions, chans, reqs,
                       published, returned>>

\* GET /mcp/sse: the orchestrator is registered (a register that fails is
\* ignored: up is whether the store answers), then subscribe, and the
\* receiver goes to a stream that has emitted nothing yet.
mcp_sse(up) ==
    LET sub == subscribe(MCP_ORCHESTRATOR_NAME)
    IN  /\ agents' = IF up THEN ensure_orchestrator ELSE agents
        /\ sessions' = sub.sessions
        /\ chans' = sub.chans
        /\ published' = IF Len(sub.chans) > Len(chans)
                        THEN Append(published, <<>>) ELSE published
        /\ rxs' = Append(rxs,
              [name  |-> MCP_ORCHESTRATOR_NAME,
               kind  |-> "mcp",
               chan  |-> sub.rx.chan,
               next  |-> sub.rx.next,
               alive |-> sub.rx.alive,
               start |-> IF MCP_ORCHESTRATOR_NAME \in DOMAIN sessions
                         THEN Len(published[sessions[MCP_ORCHESTRATOR_NAME]])
                         ELSE 0,
               end   |-> 0,
               out   |-> <<>>])
        /\ last' = Internal
        /\ UNCHANGED <<messages, tasks, now, reqs, returned>>

\* init_stream: one event of type endpoint with data /mcp/sse.
init_stream == [event |-> "endpoint", data |-> "/mcp/sse"]

\* What an event carries: the Message, or the JSON-RPC value.
event_content(evt) == IF evt.kind = "AgentMessage" THEN evt.msg ELSE evt.value

\* An MCP stream that repeats the endpoint event for every event.
mcp_stream_item_endpoint(evt) == init_stream

\* What message_stream makes of one event: the closure does not look at the
\* variant, every event is wrapped as a notifications/message notification
\* around what it carries.
mcp_stream_item(evt) ==
    [event |-> "message",
     data  |-> [jsonrpc |-> "2.0", method |-> "notifications/message",
                params |-> [message |-> event_content(evt)]]]

\* One poll of the MCP stream on receiver r, init_stream.chain(message_stream):
\* the first poll yields the endpoint event without reading the channel; a
\* later poll reads the channel as a worker stream does (Lagged is dropped,
\* a closed and drained channel ends the stream).
mcp_stream_poll(r) ==
    LET rx == rxs[r]
        ch == chans[rx.chan]
    IN  /\ rx.kind = "mcp"
        /\ rx.alive
        /\ rx.out = << >> \/ rx.next < ch.pos \/ ch.closed
        /\ rxs' = [rxs EXCEPT ![r] =
              IF rx.out = << >>
              THEN [rx EXCEPT !.out = <<init_stream>>]
              ELSE IF rx.next < oldest(ch)
              THEN [rx EXCEPT !.next = oldest(ch)]
              ELSE IF rx.next < ch.pos
              THEN [rx EXCEPT !.next = @ + 1,
                              !.out = Append(@, mcp_stream_item(
                                          ch.buf[rx.next - oldest(ch) + 1]))]
              ELSE [rx EXCEPT !.alive = FALSE,
                              !.end = Len(published[rx.chan])]]
        /\ last' = Internal
        /\ UNCHANGED <<agents, messages, tasks, now, sessions, chans, reqs,
                       published, returned>>

\* SessionManager::send_jsonrpc(name, value), called directly (no handler
\* calls it).
session_send_jsonrpc(name, value) ==
    LET res == send_jsonrpc(name, value)
    IN  /\ chans' = res.chans
        /\ published' = IF res.chans # chans
                        THEN [published EXCEPT ![sessions[name]] =
                                  Append(@, JsonRpc(value))]
                        ELSE published
        /\ last' = [op |-> "send_jsonrpc", ok |-> res.ok, name |-> name,
                    value |-> value]
        /\ UNCHANGED <<agents, messages, tasks, now, sessions, rxs, reqs,
                       returned>>

\* disconnect that also removes the channel when its last receiver goes.
disconnect_removes_channel(r) ==
    /\ rxs[r].alive
    /\ rxs' = [rxs EXCEPT ![r].alive = FALSE,
                          ![r].end = Len(published[rxs[r].chan])]
    /\ sessions' = IF rx_cnt(rxs[r].chan) = 1
                   THEN [n \in {k \in DOMAIN sessions :
                                   sessions[k] # rxs[r].chan} |-> sessions[n]]
                   ELSE sessions
    /\ last' = Internal
    /\ UNCHANGED <<agents, messages, tasks, now, chans, reqs, published,
                   returned>>

\* disconnect that ends every stream of the name of receiver r.
disconnect_all_of_name(r) ==
    /\ rxs[r].alive
    /\ rxs' = [q \in DOMAIN rxs |->
                  IF rxs[q].alive /\ rxs[q].chan = rxs[r].chan
                  THEN [rxs[q] EXCEPT !.alive = FALSE,
                                      !.end = Len(published[rxs[q].chan])]
                  ELSE rxs[q]]
    /\ last' = Internal
    /\ UNCHANGED <<agents, messages, tasks, now, sessions, chans, reqs,
                   published, returned>>

\* The client closes the stream on receiver r: the receiver is dropped.
\* Nothing else happens: no handler calls SessionManager::remove.
disconnect(r) ==
    /\ rxs[r].alive
    /\ rxs' = [rxs EXCEPT ![r].alive = FALSE,
                          ![r].end = Len(published[rxs[r].chan])]
    /\ last' = Internal
    /\ UNCHANGED <<agents, messages, tasks, now, sessions, chans, reqs,
                   published, returned>>

\* remove that closes the channel of name and leaves its entry in the map.
session_remove_keeps_entry(name) ==
    LET res == remove(name)
    IN  /\ sessions' = sessions
        /\ chans' = res.chans
        /\ last' = Internal
        /\ UNCHANGED <<agents, messages, tasks, now, rxs, reqs, published,
                       returned>>

\* SessionManager::remove(name), called directly (no handler calls it).
session_remove(name) ==
    LET res == remove(name)
    IN  /\ sessions' = res.sessions
        /\ chans' = res.chans
        /\ last' = Internal
        /\ UNCHANGED <<agents, messages, tasks, now, rxs, reqs, published,
                       returned>>

(* ----------------------- the two send handlers ------------------------- *)

\* The awaits of a send handler before message_store.create are lookups of
\* agent rows, which are never deleted and never change id, then
\* mark_started.  A lookup that succeeds would succeed with the same row at any
\* later time, so these awaits are taken as one step at the time of the last.

\* A send handler that never calls mark_started.
mark_if_task_never(task, ok) == tasks

\* if let Some(tid) = task_id { let _ = task_store.mark_started(tid).await; }
\* The call either runs the UPDATE or fails with a storage error; the handler
\* discards the result either way.
mark_if_task(task, ok) ==
    IF IsSome(task) /\ ok THEN mark_started(Unwrap(task)) ELSE tasks

\* The request record after mark_started (known and marked are history: the
\* task_id named a task at the call, and the time of a call that did not
\* fail).
send_request(path, to, task, ok, sender_id, recipient_id) ==
    [pc |-> "create", path |-> path, to |-> to, task |-> task,
     known |-> IsSome(task) /\ Unwrap(task) \in DOMAIN tasks,
     marked |-> IF IsSome(task) /\ ok THEN Some(now) ELSE None,
     sender_id |-> sender_id, recipient_id |-> recipient_id, msg |-> None]

\* agent_message that marks the task started before it validates the request.
agent_message_marks_first(s, from, to, task) ==
    /\ FreeSlot(s)
    /\ IF ~get_by_name_ok(from) \/ ~get_by_name_ok(to)
       THEN /\ last' = send_failure("relay", 404)
            /\ tasks' = IF IsSome(task) /\ parse_uuid_ok(Unwrap(task))
                        THEN mark_started(Unwrap(task)) ELSE tasks
            /\ UNCHANGED reqs
       ELSE IF IsSome(task) /\ ~parse_uuid_ok(Unwrap(task))
       THEN /\ last' = send_failure("relay", 400)
            /\ UNCHANGED <<reqs, tasks>>
       ELSE \E ok \in IF IsSome(task) THEN BOOLEAN ELSE {TRUE} :
            /\ tasks' = mark_if_task(task, ok)
            /\ reqs' = [reqs EXCEPT ![s] =
                  send_request("relay", to, task, ok, get_by_name(from).id,
                               get_by_name(to).id)]
            /\ last' = Internal
    /\ UNCHANGED <<agents, messages, now, sessions, chans, rxs, published,
                   returned>>

\* POST /agent/message {from, to, content, task_id?} up to mark_started:
\* unknown from or to is answered 404, a task_id that is no UUID 400.
agent_message_begin(s, from, to, task) ==
    /\ FreeSlot(s)
    /\ IF ~get_by_name_ok(from) \/ ~get_by_name_ok(to)
       THEN /\ last' = send_failure("relay", 404)
            /\ UNCHANGED <<reqs, tasks>>
       ELSE IF IsSome(task) /\ ~parse_uuid_ok(Unwrap(task))
       THEN /\ last' = send_failure("relay", 400)
            /\ UNCHANGED <<reqs, tasks>>
       ELSE \E ok \in IF IsSome(task) THEN BOOLEAN ELSE {TRUE} :
            /\ tasks' = mark_if_task(task, ok)
            /\ reqs' = [reqs EXCEPT ![s] =
                  send_request("relay", to, task, ok, get_by_name(from).id,
                               get_by_name(to).id)]
            /\ last' = Internal
    /\ UNCHANGED <<agents, messages, now, sessions, chans, rxs, published,
                   returned>>

\* POST /mcp, tools/call send_message {to, content, task_id?} with an id, up
\* to mark_started: the orchestrator is registered, the arguments are read (a
\* task_id that is no UUID is an error), the orchestrator and the recipient
\* are looked up (an orchestrator that the failed register left unregistered,
\* or an unknown recipient, is an error).
tool_send_message_begin(s, to, task) ==
    /\ FreeSlot(s)
    /\ agents' \in ensure_orchestrator_discarded
    /\ IF \/ IsSome(task) /\ ~parse_uuid_ok(Unwrap(task))
          \/ MCP_ORCHESTRATOR_NAME \notin DOMAIN agents'
          \/ to \notin DOMAIN agents'
       THEN /\ last' = send_failure("tool", 200)
            /\ UNCHANGED <<reqs, tasks>>
       ELSE \E ok \in IF IsSome(task) THEN BOOLEAN ELSE {TRUE} :
            /\ tasks' = mark_if_task(task, ok)
            /\ reqs' = [reqs EXCEPT ![s] =
                  send_request("tool", to, task, ok,
                               agents'[MCP_ORCHESTRATOR_NAME].id,
                               agents'[to].id)]
            /\ last' = Internal
    /\ UNCHANGED <<messages, now, sessions, chans, rxs, published, returned>>

\* The messages table as the schema declares it: task_id is a plain column,
\* not a foreign key into tasks.
task_fk_enforced == FALSE

\* The INSERT of MessageStore::create is accepted by the schema.
insert_accepted(params) ==
    IF task_fk_enforced /\ IsSome(params.task_id)
    THEN Unwrap(params.task_id) \in DOMAIN tasks
    ELSE TRUE

\* send_create whose failed create has stored the row all the same.
send_create_keeps_row(s) ==
    LET r == reqs[s]
        params == [sender_id |-> r.sender_id, recipient_id |-> r.recipient_id,
                   task_id |-> r.task, content |-> "hi"]
    IN  /\ r.pc = "create"
        /\ \/ /\ insert_accepted(params)
              /\ messages' = message_create(params)
              /\ reqs' = [reqs EXCEPT ![s].msg = Some(new_message(params)),
                                      ![s].pc = "notify"]
              /\ last' = Internal
           \/ /\ messages' = message_create(params)
              /\ reqs' = [reqs EXCEPT ![s] = Idle]
              /\ last' = send_failure(r.path, 500)
        /\ UNCHANGED <<agents, tasks, now, sessions, chans, rxs, published,
                       returned>>

\* Both handlers: message_store.create(...); a storage error ends the request
\* with 500 (relay) or a tool error.
send_create(s) ==
    LET r == reqs[s]
        params == [sender_id |-> r.sender_id, recipient_id |-> r.recipient_id,
                   task_id |-> r.task, content |-> "hi"]
    IN  /\ r.pc = "create"
        /\ \/ /\ insert_accepted(params)
              /\ messages' = message_create(params)
              /\ reqs' = [reqs EXCEPT ![s].msg = Some(new_message(params)),
                                      ![s].pc = "notify"]
              /\ last' = Internal
           \/ /\ messages' = messages
              /\ reqs' = [reqs EXCEPT ![s] = Idle]
              /\ last' = send_failure(r.path, 500)
        /\ UNCHANGED <<agents, tasks, now, sessions, chans, rxs, published,
                       returned>>

\* A response that always reports delivery.
send_response_delivered(path, to, m, delivered) ==
    [op |-> IF path = "relay" THEN "agent_message" ELSE "send_message",
     ok |-> TRUE, status |-> 200, to |-> to,
     message_id |-> m.id, delivered |-> TRUE]

\* The body of a successful send response: {message_id, delivered}.
send_response(path, to, m, delivered) ==
    [op |-> IF path = "relay" THEN "agent_message" ELSE "send_message",
     ok |-> TRUE, status |-> 200, to |-> to,
     message_id |-> m.id, delivered |-> delivered]

\* Both handlers: sessions.notify(to, message.clone()), then the response.
send_notify(s) ==
    LET r   == reqs[s]
        m   == Unwrap(r.msg)
        res == notify(r.to, m)
    IN  /\ r.pc = "notify"
        /\ chans' = res.chans
        /\ published' = IF res.chans # chans
                        THEN [published EXCEPT ![sessions[r.to]] =
                                  Append(@, AgentMessage(m))]
                        ELSE published
        /\ reqs' = [reqs EXCEPT ![s] = Idle]
        /\ returned' = returned \cup {m}
        /\ last' = send_response(r.path, r.to, m, res.ok)
        /\ UNCHANGED <<agents, messages, tasks, now, sessions, rxs>>

(* --------------------------- the other tools --------------------------- *)

\* ORDER BY name over the names of the model.
NameOrder == <<MCP_ORCHESTRATOR_NAME, "a", "b">>

\* AgentRegistry::list: SELECT ... FROM agents ORDER BY name, over registry
\* rows ags.
list(ags) ==
    LET names == SelectSeq(NameOrder, LAMBDA n : n \in DOMAIN ags)
    IN  [i \in DOMAIN names |-> ags[names[i]]]

\* The loop of tool_list_agents without its continue.
agent_list_unfiltered(ags) ==
    LET rows == list(ags)
    IN  [i \in DOMAIN rows |->
            [name |-> rows[i].name, description |-> rows[i].description,
             connected |-> is_connected(rows[i].name)]]

\* The loop of tool_list_agents over registry rows ags: the row of the
\* orchestrator is skipped, every other row gives {name, description,
\* connected} with connected = is_connected(name).
agent_list(ags) ==
    LET rows == SelectSeq(list(ags),
                          LAMBDA a : a.name # MCP_ORCHESTRATOR_NAME)
    IN  [i \in DOMAIN rows |->
            [name |-> rows[i].name, description |-> rows[i].description,
             connected |-> is_connected(rows[i].name)]]

\* The agents of a tool_list_agents answer over registry rows ags, as a set.
list_agents_result(ags) == Range(agent_list(ags))

\* tools/call list_agents with an id.  Its response is
\* list_agents_result(agents'): the call changes nothing but the registry.
tool_list_agents ==
    /\ agents' \in ensure_orchestrator_discarded
    /\ last' = Internal
    /\ UNCHANGED <<messages, tasks, now, sessions, chans, rxs, reqs,
                   published, returned>>

NameArgs == {None} \cup {Some(n) : n \in Names}

\* tool_get_messages over registry rows ags: a task_id that is no UUID or an
\* unknown sender or recipient name is an error; otherwise the names are
\* resolved to ids and the store is queried.
get_messages_result(ags, task, sender, recipient) ==
    IF \/ IsSome(task) /\ ~parse_uuid_ok(Unwrap(task))
       \/ IsSome(sender) /\ Unwrap(sender) \notin DOMAIN ags
       \/ IsSome(recipient) /\ Unwrap(recipient) \notin DOMAIN ags
    THEN [ok |-> FALSE, messages |-> << >>]
    ELSE [ok |-> TRUE,
          messages |-> query(
              [task_id |-> task,
               sender_id |-> IF IsSome(sender)
                             THEN Some(ags[Unwrap(sender)].id) ELSE None,
               recipient_id |-> IF IsSome(recipient)
                                THEN Some(ags[Unwrap(recipient)].id)
                                ELSE None])]

\* tools/call get_messages {task_id?, sender?, recipient?} with an id.  Its
\* response is get_messages_result(agents', ...): the call changes nothing
\* but the registry.
tool_get_messages ==
    /\ agents' \in ensure_orchestrator_discarded
    /\ last' = Internal
    /\ UNCHANGED <<messages, tasks, now, sessions, chans, rxs, reqs,
                   published, returned>>

\* tools/call get_task_status {task_id} with an id: a task_id that is no
\* UUID or names no task is a tool error; otherwise the response is the
\* TaskStatus, unless compute panics, which ends the request without one.
tool_get_task_status(text, overflow_checks) ==
    /\ agents' \in ensure_orchestrator_discarded
    /\ last' =
          IF ~parse_uuid_ok(text) \/ ~get_ok(text)
          THEN [op |-> "get_task_status", ok |-> FALSE, status |-> 200,
                code |-> -32603]
          ELSE LET st == get_status(text, overflow_checks)
               IN  [op |-> "get_task_status", ok |-> ~st.panicked,
                    status |-> IF st.panicked THEN 0 ELSE 200,
                    task_id |-> text, result |-> st]
    /\ UNCHANGED <<messages, tasks, now, sessions, chans, rxs, reqs,
                   published, returned>>

\* tools/call create_task {title, time_budget_secs?} with an id: the
\* orchestrator is looked up as the creator (a tool error when the failed
\* register left it unregistered), then the task is created.
tool_create_task(budget) ==
    /\ agents' \in ensure_orchestrator_discarded
    /\ IF MCP_ORCHESTRATOR_NAME \in DOMAIN agents'
       THEN /\ tasks' = task_create(
                   [title |-> "t",
                    created_by |-> agents'[MCP_ORCHESTRATOR_NAME].id,
                    time_budget_secs |-> budget])
            /\ last' = Internal
       ELSE /\ tasks' = tasks
            /\ last' = [op |-> "create_task", ok |-> FALSE, status |-> 200,
                        code |-> -32603]
    /\ UNCHANGED <<messages, now, sessions, chans, rxs, reqs, published,
                   returned>>

(* ------------------------- the MCP POST handler ------------------------ *)

\* serde_json::Value::Null.
JsonNull == "null"

\* Standard JSON-RPC error codes.
METHOD_NOT_FOUND == -32601
INVALID_PARAMS == -32602
INTERNAL_ERROR == -32603

\* The arguments object of a tools/call: each key absent (None) or a string
\* (time_budget_secs: an integer).
NoArguments ==
    [to |-> None, content |-> None, task_id |-> None, title |-> None,
     time_budget_secs |-> None, sender |-> None, recipient |-> None]

\* Result<Value, String> of a tool.
ToolOk(value) == [ok |-> TRUE, value |-> value]
ToolErr(err) == [ok |-> FALSE, err |-> err]

\* What a tool leaves behind: its result and the tables, channels and
\* histories after it.
tool_outcome(res, tks, msgs, chs, pub, ret) ==
    [res |-> res, tasks |-> tks, messages |-> msgs, chans |-> chs,
     published |-> pub, returned |-> ret]
tool_unchanged(res) ==
    tool_outcome(res, tasks, messages, chans, published, returned)

\* tool_list_agents over registry rows ags; up: the store answers.
call_list_agents(ags, up) ==
    tool_unchanged(IF up THEN ToolOk([agents |-> agent_list(ags)])
                   ELSE ToolErr("database error"))

\* tool_send_message over registry rows ags; mark_ok: mark_started did not
\* fail.  Run without another request in between.
call_send_message(args, ags, up, mark_ok) ==
    IF args.to = None THEN tool_unchanged(ToolErr("Missing 'to' parameter"))
    ELSE IF args.content = None
    THEN tool_unchanged(ToolErr("Missing 'content' parameter"))
    ELSE IF IsSome(args.task_id) /\ ~parse_uuid_ok(Unwrap(args.task_id))
    THEN tool_unchanged(ToolErr("Invalid task_id"))
    ELSE IF ~up THEN tool_unchanged(ToolErr("database error"))
    ELSE IF Unwrap(args.to) \notin DOMAIN ags
    THEN tool_unchanged(ToolErr("Recipient agent not found"))
    ELSE LET to     == Unwrap(args.to)
             params == [sender_id    |-> ags[MCP_ORCHESTRATOR_NAME].id,
                        recipient_id |-> ags[to].id,
                        task_id      |-> args.task_id,
                        content      |-> Unwrap(args.content)]
             m      == new_message(params)
             res    == notify(to, m)
         IN  tool_outcome(
                 ToolOk([message_id |-> m.id, delivered |-> res.ok]),
                 mark_if_task(args.task_id, mark_ok),
                 message_create(params),
                 res.chans,
                 IF res.chans # chans
                 THEN [published EXCEPT ![sessions[to]] =
                           Append(@, AgentMessage(m))]
                 ELSE published,
                 returned \cup {m})

\* tool_get_messages
call_get_messages(args, ags, up) ==
    IF IsSome(args.task_id) /\ ~parse_uuid_ok(Unwrap(args.task_id))
    THEN tool_unchanged(ToolErr("Invalid task_id"))
    ELSE IF ~up THEN tool_unchanged(ToolErr("database error"))
    ELSE LET r == get_messages_result(ags, args.task_id, args.sender,
                                      args.recipient)
         IN  tool_unchanged(IF r.ok THEN ToolOk([messages |-> r.messages])
                            ELSE ToolErr("agent not found"))

\* tool_create_task
call_create_task(args, ags, up) ==
    IF args.title = None
    THEN tool_unchanged(ToolErr("Missing 'title' parameter"))
    ELSE IF ~up THEN tool_unchanged(ToolErr("database error"))
    ELSE LET tks == task_create(
                        [title |-> Unwrap(args.title),
                         created_by |-> ags[MCP_ORCHESTRATOR_NAME].id,
                         time_budget_secs |-> args.time_budget_secs])
             id  == Cardinality(DOMAIN tasks) + 1
         IN  tool_outcome(ToolOk([task_id |-> id, title |-> tks[id].title]),
                          tks, messages, chans, published, returned)

\* tool_get_task_status (a compute that panics ends the request: the result
\* then says so).
call_get_task_status(args, up, overflow_checks) ==
    IF args.task_id = None
    THEN tool_unchanged(ToolErr("Missing 'task_id' parameter"))
    ELSE IF ~parse_uuid_ok(Unwrap(args.task_id))
    THEN tool_unchanged(ToolErr("Invalid task_id"))
    ELSE IF ~up THEN tool_unchanged(ToolErr("database error"))
    ELSE IF ~get_ok(Unwrap(args.task_id))
    THEN tool_unchanged(ToolErr("task not found"))
    ELSE tool_unchanged(
             ToolOk(get_status(Unwrap(args.task_id), overflow_checks)))

\* serde_json::to_string_pretty(&value): the text of value.
to_string_pretty(value) == [json_text |-> value]

\* JsonRpcResponse::success and ::error; a field that is None is left out
\* of the serialised body.
JsonRpcResponse_success(id, result) ==
    [jsonrpc |-> "2.0", id |-> id, result |-> Some(result), error |-> None]
JsonRpcResponse_error(id, code, message) ==
    [jsonrpc |-> "2.0", id |-> id, result |-> None,
     error |-> Some([code |-> code, message |-> message])]

\* What mcp_request leaves behind: the HTTP status, the body (None: empty),
\* and the state after it.
mcp_outcome(status, body, ags, o) ==
    [status |-> status, body |-> body, agents |-> ags, tasks |-> o.tasks,
     messages |-> o.messages, chans |-> o.chans,
     published |-> o.published, returned |-> o.returned]

\* handle_tools_call that answers a tool Err with 500 and no body.
handle_tools_call_http_error(id, params, ags, up, mark_ok, overflow_checks) ==
    IF params = None
    THEN mcp_outcome(200, Some(JsonRpcResponse_error(id, INVALID_PARAMS,
                                                     "Missing params")),
                     ags, tool_unchanged(ToolErr("")))
    ELSE LET tool_name == IF IsSome(Unwrap(params).name)
                          THEN Unwrap(Unwrap(params).name) ELSE ""
             arguments == IF IsSome(Unwrap(params).arguments)
                          THEN Unwrap(Unwrap(params).arguments)
                          ELSE NoArguments
             o == IF tool_name = "list_agents"
                  THEN call_list_agents(ags, up)
                  ELSE IF tool_name = "send_message"
                  THEN call_send_message(arguments, ags, up, mark_ok)
                  ELSE IF tool_name = "get_messages"
                  THEN call_get_messages(arguments, ags, up)
                  ELSE IF tool_name = "create_task"
                  THEN call_create_task(arguments, ags, up)
                  ELSE IF tool_name = "get_task_status"
                  THEN call_get_task_status(arguments, up, overflow_checks)
                  ELSE tool_unchanged(ToolErr("Unknown tool"))
         IN  IF o.res.ok
             THEN mcp_outcome(200,
                      Some(JsonRpcResponse_success(id,
                          [content |-> <<[type |-> "text",
                                          text |-> to_string_pretty(
                                                       o.res.value)]>>])),
                      ags, o)
             ELSE mcp_outcome(500, None, ags, o)

\* handle_tools_call: no params is INVALID_PARAMS; otherwise the tool named
\* by params.name ("" when absent) runs on params.arguments ({} when absent),
\* Ok is wrapped in the content envelope and every Err is INTERNAL_ERROR.
handle_tools_call(id, params, ags, up, mark_ok, overflow_checks) ==
    IF params = None
    THEN mcp_outcome(200, Some(JsonRpcResponse_error(id, INVALID_PARAMS,
                                                     "Missing params")),
                     ags, tool_unchanged(ToolErr("")))
    ELSE LET tool_name == IF IsSome(Unwrap(params).name)
                          THEN Unwrap(Unwrap(params).name) ELSE ""
             arguments == IF IsSome(Unwrap(params).arguments)
                          THEN Unwrap(Unwrap(params).arguments)
                          ELSE NoArguments
             o == IF tool_name = "list_agents"
                  THEN call_list_agents(ags, up)
                  ELSE IF tool_name = "send_message"
                  THEN call_send_message(arguments, ags, up, mark_ok)
                  ELSE IF tool_name = "get_messages"
                  THEN call_get_messages(arguments, ags, up)
                  ELSE IF tool_name = "create_task"
                  THEN call_create_task(arguments, ags, up)
                  ELSE IF tool_name = "get_task_status"
                  THEN call_get_task_status(arguments, up, overflow_checks)
                  ELSE tool_unchanged(ToolErr("Unknown tool"))
         IN  IF o.res.ok
             THEN mcp_outcome(200,
                      Some(JsonRpcResponse_success(id,
                          [content |-> <<[type |-> "text",
                                          text |-> to_string_pretty(
                                                       o.res.value)]>>])),
                      ags, o)
             ELSE mcp_outcome(200,
                      Some(JsonRpcResponse_error(id, INTERNAL_ERROR,
                                                 o.res.err)),
                      ags, o)

\* Json<JsonRpcRequest>: the body deserialises unless the id key is absent
\* (id: Value has no serde default, so a missing key is a missing field).
json_request_ok(body) == IsSome(body.id)

\* The rejection of the Json extractor for a body that does not deserialise.
UNPROCESSABLE_ENTITY == 422

\* mcp_request that answers an unknown method with INTERNAL_ERROR.
mcp_request_internal_error(body, up, mark_ok, overflow_checks) ==
    LET same == tool_unchanged(ToolErr(""))
        id   == Unwrap(body.id)
        ags  == IF up THEN ensure_orchestrator ELSE agents
    IN  IF ~json_request_ok(body)
        THEN mcp_outcome(UNPROCESSABLE_ENTITY, None, agents, same)
        ELSE IF id = JsonNull THEN mcp_outcome(202, None, agents, same)
        ELSE IF body.method = "notifications/initialized"
        THEN mcp_outcome(202, None, agents, same)
        ELSE IF body.method = "initialize"
        THEN mcp_outcome(200, Some(JsonRpcResponse_success(id,
                 [protocolVersion |-> "2024-11-05",
                  capabilities |-> [tools |-> << >>],
                  serverInfo |-> [name |-> "meddler"]])), ags, same)
        ELSE IF body.method = "tools/list"
        THEN mcp_outcome(200, Some(JsonRpcResponse_success(id,
                 [tools |-> {"list_agents", "send_message", "get_messages",
                             "create_task", "get_task_status"}])), ags, same)
        ELSE IF body.method = "tools/call"
        THEN handle_tools_call(id, body.params, ags, up, mark_ok,
                               overflow_checks)
        ELSE mcp_outcome(200, Some(JsonRpcResponse_error(id, INTERNAL_ERROR,
                                                         "Method not found")),
                         ags, same)

\* mcp_request on a body (id key absent, null or a value; method; params),
\* run without another request in between.  up: the store answers (a
\* register that fails is ignored).
mcp_request(body, up, mark_ok, overflow_checks) ==
    LET same == tool_unchanged(ToolErr(""))
        id   == Unwrap(body.id)
        ags  == IF up THEN ensure_orchestrator ELSE agents
    IN  IF ~json_request_ok(body)
        THEN mcp_outcome(UNPROCESSABLE_ENTITY, None, agents, same)
        ELSE IF id = JsonNull THEN mcp_outcome(202, None, agents, same)
        ELSE IF body.method = "notifications/initialized"
        THEN mcp_outcome(202, None, agents, same)
        ELSE IF body.method = "initialize"
        THEN mcp_outcome(200, Some(JsonRpcResponse_success(id,
                 [protocolVersion |-> "2024-11-05",
                  capabilities |-> [tools |-> << >>],
                  serverInfo |-> [name |-> "meddler"]])), ags, same)
        ELSE IF body.method = "tools/list"
        THEN mcp_outcome(200, Some(JsonRpcResponse_success(id,
                 [tools |-> {"list_agents", "send_message", "get_messages",
                             "create_task", "get_task_status"}])), ags, same)
        ELSE IF body.method = "tools/call"
        THEN handle_tools_call(id, body.params, ags, up, mark_ok,
                               overflow_checks)
        ELSE mcp_outcome(200, Some(JsonRpcResponse_error(id, METHOD_NOT_FOUND,
                                                         "Method not found")),
                         ags, same)

\* create_router with POST /mcp/sse left out.
route_post_mcp_only(path) ==
    IF path = "/mcp" THEN "mcp_request"
    ELSE IF path = "/agent/register" THEN "agent_register"
    ELSE IF path = "/agent/message" THEN "agent_message"
    ELSE IF path \in {"/health", "/mcp/sse"} THEN "method_not_allowed"
    ELSE "not_found"

\* create_router: the handler of a POST to path.
route_post(path) ==
    IF path \in {"/mcp/sse", "/mcp"} THEN "mcp_request"
    ELSE IF path = "/agent/register" THEN "agent_register"
    ELSE IF path = "/agent/message" THEN "agent_message"
    ELSE IF path = "/health" THEN "method_not_allowed"
    ELSE "not_found"

\* A POST of a JSON-RPC body to one of the MCP paths.
post_outcome(path, body, up, mark_ok, overflow_checks) ==
    IF route_post(path) = "mcp_request"
    THEN mcp_request(body, up, mark_ok, overflow_checks)
    ELSE mcp_outcome(IF route_post(path) = "not_found" THEN 404 ELSE 405,
                     None, agents, tool_unchanged(ToolErr("")))

\* POST that registers the orchestrator before it looks at the id.
mcp_post_registers_first(path, body, up, mark_ok, overflow_checks) ==
    \E o \in {post_outcome(path, body, up, mark_ok, overflow_checks)} :
        /\ agents' = IF o.agents = agents /\ up THEN ensure_orchestrator
                     ELSE o.agents
        /\ tasks' = o.tasks
        /\ messages' = o.messages
        /\ chans' = o.chans
        /\ published' = o.published
        /\ returned' = o.returned
        /\ last' = [op |-> "mcp_request", path |-> path,
                    status |-> o.status, body |-> o.body]
        /\ UNCHANGED <<now, sessions, rxs, reqs>>

\* POST path with body: the outcome takes effect and the response is
\* recorded.
mcp_post(path, body, up, mark_ok, overflow_checks) ==
    \E o \in {post_outcome(path, body, up, mark_ok, overflow_checks)} :
        /\ agents' = o.agents
        /\ tasks' = o.tasks
        /\ messages' = o.messages
        /\ chans' = o.chans
        /\ published' = o.published
        /\ returned' = o.returned
        /\ last' = [op |-> "mcp_request", path |-> path,
                    status |-> o.status, body |-> o.body]
        /\ UNCHANGED <<now, sessions, rxs, reqs>>

(* --------------------------- specification ----------------------------- *)

Init ==
    /\ agents = << >>
    /\ messages = << >>
    /\ tasks = << >>
    /\ now = 0
    /\ sessions = << >>
    /\ chans = << >>
    /\ rxs = << >>
    /\ reqs = [s \in 1 .. MaxInFlight |-> Idle]
    /\ last = Internal
    /\ published = << >>
    /\ returned = {}

\* The envelope of the model: a run stops sending at MaxMsg messages stored
\* or in flight, and stops opening streams, channels and tasks at their bounds.
CanSend == Len(messages) + Cardinality(InFlight) < MaxMsg
CanSubscribe(n) ==
    \/ n \notin DOMAIN agents
    \/ /\ Len(rxs) < MaxRx
       /\ n \in DOMAIN sessions \/ Len(chans) < MaxChan

Register == \E n \in Workers, d \in Descriptions : agent_register(n, d)
AgentSse == \E n \in Workers : CanSubscribe(n) /\ agent_sse(n)
StreamPoll == \E r \in DOMAIN rxs : stream_poll(r)
Disconnect == \E r \in DOMAIN rxs : disconnect(r)
Remove == \E n \in Workers : session_remove(n)
AgentMessageBegin ==
    /\ CanSend
    /\ \E s \in DOMAIN reqs, from \in Senders, to \in Workers, task \in TaskArgs :
          agent_message_begin(s, from, to, task)
ToolSendMessageBegin ==
    /\ CanSend
    /\ \E s \in DOMAIN reqs, to \in Workers, task \in TaskArgs :
          tool_send_message_begin(s, to, task)
SendCreate == \E s \in DOMAIN reqs : send_create(s)
SendNotify == \E s \in DOMAIN reqs : send_notify(s)
ToolListAgents == tool_list_agents
ToolGetMessages == tool_get_messages
ToolCreateTask ==
    /\ Cardinality(DOMAIN tasks) < MaxTask
    /\ \E b \in Budgets : tool_create_task(b)

Next ==
    \/ Register
    \/ AgentSse
    \/ StreamPoll
    \/ Disconnect
    \/ Remove
    \/ AgentMessageBegin
    \/ ToolSendMessageBegin
    \/ SendCreate
    \/ SendNotify
    \/ ToolListAgents
    \/ ToolGetMessages
    \/ ToolCreateTask

Spec == Init /\ [][Next]_vars

(* ------------------------- the fan-out alone --------------------------- *)

\* The worker whose streams SpecFanout follows.
FanName == "b"

\* The state after POST /agent/register for each worker.
InitFanout ==
    /\ agents = [n \in Workers |->
                    [id |-> new_uuid(n), name |-> n, description |-> "x",
                     registered_at |-> 0, last_seen_at |-> 0]]
    /\ messages = << >>
    /\ tasks = << >>
    /\ now = 0
    /\ sessions = << >>
    /\ chans = << >>
    /\ rxs = << >>
    /\ reqs = [s \in 1 .. MaxFanInFlight |-> Idle]
    /\ last = Internal
    /\ published = << >>
    /\ returned = {}

FanSse ==
    /\ Len(rxs) < MaxFanRx
    /\ FanName \in DOMAIN sessions \/ Len(chans) < MaxFanChan
    /\ agent_sse(FanName)
FanRemove == session_remove(FanName)
FanMessageBegin ==
    /\ Len(messages) + Cardinality(InFlight) < MaxFanMsg
    /\ \E s \in DOMAIN reqs, from \in Senders :
          agent_message_begin(s, from, FanName, None)

NextFanout ==
    \/ FanSse
    \/ StreamPoll
    \/ Disconnect
    \/ FanRemove
    \/ FanMessageBegin
    \/ SendCreate
    \/ SendNotify

SpecFanout == InitFanout /\ [][NextFanout]_vars

(* ------------------------- the registry alone -------------------------- *)

\* The wall clock moves on.
tick ==
    /\ now' = now + 1
    /\ last' = Internal
    /\ UNCHANGED <<agents, messages, tasks, sessions, chans, rxs, reqs,
                   published, returned>>

\* Descriptions a client registers with in the runs of SpecRegistry.
RegDescriptions == {"x", "y"}

RegTick == now < MaxRegNow /\ tick
RegRegister == \E n \in Workers, d \in RegDescriptions : agent_register(n, d)
RegSse ==
    /\ Len(rxs) < MaxRegRx
    /\ \E n \in Workers : agent_sse(n)

NextRegistry ==
    \/ RegTick
    \/ RegRegister
    \/ RegSse
    \/ ToolListAgents

SpecRegistry == Init /\ [][NextRegistry]_vars

(* --------------------------- tasks and sends --------------------------- *)

TaskTick == now < MaxTaskNow /\ tick

\* From the state after POST /agent/register for each worker: tasks are
\* created and named by sends on both paths while the clock moves on.
NextTask ==
    \/ TaskTick
    \/ ToolCreateTask
    \/ AgentMessageBegin
    \/ ToolSendMessageBegin
    \/ SendCreate
    \/ SendNotify

SpecTask == InitFanout /\ [][NextTask]_vars

(* ------------------------- get_task_status alone ----------------------- *)

\* time_budget_secs of a task: any i64, or none.
StatusBudgets == {None} \cup {Some(b) : b \in IntMin .. IntMax}
\* Clock readings: of the database (started_at) and of the server (now).
StatusTimes == 0 .. MaxStatusTime

\* The state after the orchestrator has created task 1 with some budget and
\* the task was started or not, at some reading of the server's clock.  The
\* two clocks are not the same one: started_at may lie after now.
InitStatus ==
    /\ agents = (MCP_ORCHESTRATOR_NAME :>
                    [id |-> new_uuid(MCP_ORCHESTRATOR_NAME),
                     name |-> MCP_ORCHESTRATOR_NAME,
                     description |-> "MCP orchestrator (Cursor/Claude Desktop)",
                     registered_at |-> 0, last_seen_at |-> 0])
    /\ messages = << >>
    /\ \E b \in StatusBudgets, st \in {None} \cup {Some(t) : t \in StatusTimes} :
          tasks = (1 :> [id |-> 1, title |-> "t",
                         created_by |-> new_uuid(MCP_ORCHESTRATOR_NAME),
                         time_budget_secs |-> b, started_at |-> st,
                         created_at |-> 0])
    /\ now \in StatusTimes
    /\ sessions = << >>
    /\ chans = << >>
    /\ rxs = << >>
    /\ reqs = [s \in 1 .. MaxInFlight |-> Idle]
    /\ last = Internal
    /\ published = << >>
    /\ returned = {}

\* The build: with or without overflow checks.
StatusGet ==
    \E text \in TaskTexts, oc \in BOOLEAN : tool_get_task_status(text, oc)

NextStatus == StatusGet

SpecStatus == InitStatus /\ [][NextStatus]_vars

(* --------------------------- MCP POST alone ---------------------------- *)

\* The state after POST /agent/register for worker "a".
InitRpc ==
    /\ agents = ("a" :> [id |-> new_uuid("a"), name |-> "a",
                         description |-> "x", registered_at |-> 0,
                         last_seen_at |-> 0])
    /\ messages = << >>
    /\ tasks = << >>
    /\ now = 0
    /\ sessions = << >>
    /\ chans = << >>
    /\ rxs = << >>
    /\ reqs = [s \in 1 .. MaxInFlight |-> Idle]
    /\ last = Internal
    /\ published = << >>
    /\ returned = {}

\* The id key of a posted body: absent, null, or a string.
RpcIds == {None, Some(JsonNull), Some("abc")}
\* Names given as to, sender or recipient: a registered worker, and a name
\* that is never registered.
RpcNames == {None, Some("a"), Some("zz")}
\* The params of the tools/call bodies posted: none, no name, an unknown
\* tool, a tool without arguments, and each tool with each of its arguments
\* absent, well-formed or malformed.
RpcCalls ==
    {None, Some([name |-> None, arguments |-> None]),
     Some([name |-> Some("nope"), arguments |-> Some(NoArguments)]),
     Some([name |-> Some("send_message"), arguments |-> None]),
     Some([name |-> Some("list_agents"), arguments |-> Some(NoArguments)])}
    \cup {Some([name |-> Some("send_message"),
                arguments |-> Some([NoArguments EXCEPT
                    !.to = to, !.content = c, !.task_id = t])]) :
            to \in RpcNames, c \in {None, Some("hi")}, t \in TaskArgs}
    \cup {Some([name |-> Some("get_messages"),
                arguments |-> Some([NoArguments EXCEPT
                    !.task_id = t, !.sender = sn, !.recipient = rn])]) :
            t \in TaskArgs, sn \in RpcNames, rn \in RpcNames}
    \cup {Some([name |-> Some("create_task"),
                arguments |-> Some([NoArguments EXCEPT
                    !.title = ti, !.time_budget_secs = b])]) :
            ti \in {None, Some("t")}, b \in {None} \cup Budgets}
    \cup {Some([name |-> Some("get_task_status"),
                arguments |-> Some([NoArguments EXCEPT !.task_id = t])]) :
            t \in TaskArgs}
\* The bodies posted: every method with each id, and every tools/call with
\* an id (without one, two of them).
RpcBodies ==
    {[id |-> i, method |-> m, params |-> None] :
        i \in RpcIds,
        m \in {"initialize", "tools/list", "tools/call",
               "notifications/initialized", "foo/bar"}}
    \cup {[id |-> Some("abc"), method |-> "tools/call", params |-> c] :
            c \in RpcCalls}
    \cup {[id |-> i, method |-> "tools/call",
           params |-> Some([name |-> Some(t), arguments |-> Some(
               [NoArguments EXCEPT !.to = Some("a"), !.content = Some("hi"),
                                   !.title = Some("t")])])] :
            i \in RpcIds, t \in {"send_message", "create_task"}}
McpPaths == {"/mcp", "/mcp/sse"}

\* The tool a body calls, "" for none.
called_tool(body) ==
    IF body.method = "tools/call" /\ IsSome(body.params)
       /\ IsSome(Unwrap(body.params).name)
    THEN Unwrap(Unwrap(body.params).name) ELSE ""

\* mark_started can fail only where it is called, and the build matters only
\* where compute is called.
RpcPost ==
    \E path \in McpPaths, body \in RpcBodies, up \in BOOLEAN :
    \E mark_ok \in IF called_tool(body) = "send_message"
                   THEN BOOLEAN ELSE {TRUE} :
    \E overflow_checks \in IF called_tool(body) = "get_task_status"
                           THEN BOOLEAN ELSE {FALSE} :
        /\ mcp_post(path, body, up, mark_ok, overflow_checks)
        /\ Len(messages') <= MaxRpcMsg
        /\ Cardinality(DOMAIN tasks') <= MaxTask
RpcSse == Len(rxs) < MaxRpcRx /\ agent_sse("a")

NextRpc ==
    \/ RpcPost
    \/ RpcSse
    \/ StreamPoll

SpecRpc == InitRpc /\ [][NextRpc]_vars

(* --------------------------- the push streams -------------------------- *)

\* The JSON-RPC values given to send_jsonrpc: a response.
PushValues == {[jsonrpc |-> "2.0", id |-> "abc", result |-> "pong"]}
\* The names whose streams SpecPush follows: the orchestrator (GET /mcp/sse)
\* and one worker (GET /agent/sse/b).
PushWorker == "b"
PushNames == {MCP_ORCHESTRATOR_NAME, PushWorker}

PushMcpSse == Len(rxs) < MaxPushRx /\ \E up \in BOOLEAN : mcp_sse(up)
PushAgentSse == Len(rxs) < MaxPushRx /\ agent_sse(PushWorker)
McpStreamPoll == \E r \in DOMAIN rxs : mcp_stream_poll(r)
PushSendJsonrpc ==
    /\ \A c \in DOMAIN published : Len(published[c]) < MaxPushRpc
    /\ \E n \in PushNames, v \in PushValues : session_send_jsonrpc(n, v)
PushMessageBegin ==
    /\ Len(messages) + Cardinality(InFlight) < MaxPushMsg
    /\ \E s \in DOMAIN reqs, from \in Senders, to \in PushNames :
          agent_message_begin(s, from, to, None)

\* From the state after POST /agent/register for each worker: streams are
\* opened, polled and closed for the orchestrator and one worker, while
\* messages are relayed and JSON-RPC values sent to both names.
NextPush ==
    \/ PushMcpSse
    \/ PushAgentSse
    \/ McpStreamPoll
    \/ StreamPoll
    \/ Disconnect
    \/ PushSendJsonrpc
    \/ PushMessageBegin
    \/ SendCreate
    \/ SendNotify

SpecPush == InitFanout /\ [][NextPush]_vars

(* -------------------- the session map under its lock ------------------- *)

\* tokio::sync::RwLock over the map: any number of readers, or one writer.
\* A SessionManager call in progress is a record in reqs: waiting for the
\* lock (pc "wait") or holding it (pc "held"); the guard is dropped when the
\* call returns.  The lock grants waiters in arrival order; the model grants
\* any waiter the holders allow, which admits every run the lock admits.

SessionCalls == {"subscribe", "notify", "send_jsonrpc", "remove",
                 "is_connected"}

\* A SessionManager in which every call takes the writer.
lock_mode_all_write(call) == "write"

\* self.sessions.write().await in subscribe and remove,
\* self.sessions.read().await in notify, send_jsonrpc and is_connected.
lock_mode(call) ==
    IF call \in {"subscribe", "remove"} THEN "write" ELSE "read"

\* The calls that hold the lock.
lock_holders == {s \in DOMAIN reqs : reqs[s].pc = "held"}

\* RwLock::read and RwLock::write are granted.
read_granted == \A s \in lock_holders : reqs[s].mode = "read"
write_granted == lock_holders = {}

\* The Message given to notify, and the value given to send_jsonrpc.
LockMessage ==
    [id |-> 1, sender_id |-> 2, recipient_id |-> 3, task_id |-> None,
     content |-> "hi", created_at |-> 0]
LockValue == [jsonrpc |-> "2.0", id |-> "abc", result |-> "pong"]

\* A task calls SessionManager::<call>(name): it reaches the lock's await.
session_call_begin(s, call, name) ==
    /\ FreeSlot(s)
    /\ reqs' = [reqs EXCEPT ![s] = [pc |-> "wait", call |-> call,
                                    name |-> name, mode |-> lock_mode(call)]]
    /\ last' = Internal
    /\ UNCHANGED <<agents, messages, tasks, now, sessions, chans, rxs,
                   published, returned>>

\* The await of read() or write() completes: the call holds its guard.
session_call_acquire(s) ==
    /\ reqs[s].pc = "wait"
    /\ IF reqs[s].mode = "read" THEN read_granted ELSE write_granted
    /\ reqs' = [reqs EXCEPT ![s].pc = "held"]
    /\ last' = Internal
    /\ UNCHANGED <<agents, messages, tasks, now, sessions, chans, rxs,
                   published, returned>>

\* The body of the call in slot s runs under its guard and the call returns,
\* which drops the guard.  The bodies have no await: send never waits.
session_call_return(s) ==
    LET c == reqs[s]
    IN  /\ c.pc = "held"
        /\ reqs' = [reqs EXCEPT ![s] = Idle]
        /\ IF c.call = "subscribe"
           THEN LET sub == subscribe(c.name)
                IN  /\ sessions' = sub.sessions
                    /\ chans' = sub.chans
                    /\ published' = IF Len(sub.chans) > Len(chans)
                                    THEN Append(published, <<>>)
                                    ELSE published
                    /\ rxs' = Append(rxs,
                          [name  |-> c.name,
                           kind  |-> "agent",
                           chan  |-> sub.rx.chan,
                           next  |-> sub.rx.next,
                           alive |-> sub.rx.alive,
                           start |-> IF c.name \in DOMAIN sessions
                                     THEN Len(published[sessions[c.name]])
                                     ELSE 0,
                           end   |-> 0,
                           out   |-> <<>>])
                    /\ last' = [op |-> "subscribe", name |-> c.name,
                                ok |-> TRUE]
           ELSE IF c.call = "remove"
           THEN LET res == remove(c.name)
                IN  /\ sessions' = res.sessions
                    /\ chans' = res.chans
                    /\ last' = [op |-> "remove", name |-> c.name,
                                ok |-> TRUE]
                    /\ UNCHANGED <<rxs, published>>
           ELSE IF c.call = "is_connected"
           THEN /\ last' = [op |-> "is_connected", name |-> c.name,
                            ok |-> is_connected(c.name)]
                /\ UNCHANGED <<sessions, chans, rxs, published>>
           ELSE LET ev  == IF c.call = "notify"
                           THEN AgentMessage(LockMessage)
                           ELSE JsonRpc(LockValue)
                    res == IF c.call = "notify"
                           THEN notify(c.name, LockMessage)
                           ELSE send_jsonrpc(c.name, LockValue)
                IN  /\ chans' = res.chans
                    /\ published' = IF res.ok
                                    THEN [published EXCEPT
                                              ![sessions[c.name]] =
                                                  Append(@, ev)]
                                    ELSE published
                    /\ last' = [op |-> c.call, name |-> c.name,
                                ok |-> res.ok]
                    /\ UNCHANGED <<sessions, rxs>>
        /\ UNCHANGED <<agents, messages, tasks, now, returned>>

\* From the state after both workers registered, with MaxLockCalls tasks
\* that call the SessionManager.
InitLock ==
    /\ agents = [n \in Workers |->
                    [id |-> new_uuid(n), name |-> n, description |-> "x",
                     registered_at |-> 0, last_seen_at |-> 0]]
    /\ messages = << >>
    /\ tasks = << >>
    /\ now = 0
    /\ sessions = << >>
    /\ chans = << >>
    /\ rxs = << >>
    /\ reqs = [s \in 1 .. MaxLockCalls |-> Idle]
    /\ last = Internal
    /\ published = << >>
    /\ returned = {}

\* The envelope of SpecLock: no subscribe is begun once MaxLockRx receivers
\* exist or are on their way, and no publish to a name whose channel has
\* taken MaxLockMsg events, those on their way counted.
LockCanBegin(call, name) ==
    LET subs == {s \in DOMAIN reqs :
                    reqs[s].pc # "idle" /\ reqs[s].call = "subscribe"}
        pubs == {s \in DOMAIN reqs :
                    /\ reqs[s].pc # "idle"
                    /\ reqs[s].call \in {"notify", "send_jsonrpc"}
                    /\ reqs[s].name = name}
    IN  /\ call = "subscribe" =>
              Len(rxs) + Cardinality(subs) < MaxLockRx
        /\ (call \in {"notify", "send_jsonrpc"} /\ name \in DOMAIN sessions) =>
              Len(published[sessions[name]]) + Cardinality(pubs) < MaxLockMsg

LockCallBegin ==
    \E s \in DOMAIN reqs, call \in SessionCalls, name \in Workers :
        LockCanBegin(call, name) /\ session_call_begin(s, call, name)
LockAcquire == \E s \in DOMAIN reqs : session_call_acquire(s)
LockReturn == \E s \in DOMAIN reqs : session_call_return(s)

NextLock ==
    \/ LockCallBegin
    \/ LockAcquire
    \/ LockReturn
    \/ StreamPoll
    \/ Disconnect

SpecLock == InitLock /\ [][NextLock]_vars

(* ------------------------------- claims -------------------------------- *)

\* A channel exists for name n and at least one receiver is attached to it.
Attached(n) ==
    /\ n \in DOMAIN sessions
    /\ \E r \in DOMAIN rxs : rxs[r].alive /\ rxs[r].chan = sessions[n]

\* The step completes the notify call of the request in slot s.
NotifyStep(s) == reqs[s].pc = "notify" /\ reqs'[s].pc = "idle"

\* C1: notify(name, message) returns true exactly when a channel exists for
\* name and a receiver is attached to it at the call; for a name never
\* subscribed, or removed, it returns false and the caller still gets its
\* normal response.
C1_NotifyReturn ==
    [][\A s \in DOMAIN reqs :
          NotifyStep(s) =>
              /\ last'.delivered = Attached(reqs[s].to)
              /\ reqs[s].to \notin DOMAIN sessions =>
                    ~last'.delivered /\ last'.ok /\ chans' = chans]_vars

\* A send to a name that was subscribed and then removed returned false.
C1_Witness ==
    /\ last.op \in {"agent_message", "send_message"}
    /\ last.ok /\ ~last.delivered
    /\ last.to \notin DOMAIN sessions
    /\ \E r \in DOMAIN rxs : rxs[r].name = last.to

\* The messages of the events a sequence of events carries.
EventMessages(evs) ==
    {evs[i].msg : i \in {k \in DOMAIN evs : evs[k].kind = "AgentMessage"}}

\* C2: persist-then-publish: every message that was published to a channel,
\* is retained in a ring or was emitted on a stream is in the message history.
C2_PersistThenPublish ==
    /\ \A c \in DOMAIN chans :
          /\ EventMessages(chans[c].buf) \subseteq Range(messages)
          /\ EventMessages(published[c]) \subseteq Range(messages)
    /\ \A r \in DOMAIN rxs : Range(rxs[r].out) \subseteq Range(messages)

\* A stream has emitted a message while another send is between its persist
\* and its publish.
C2_Witness ==
    /\ \E r \in DOMAIN rxs : rxs[r].out # << >>
    /\ \E s \in DOMAIN reqs : reqs[s].pc = "notify"

\* C3: a message whose send has answered its caller is returned by every
\* later get_messages call whose filter it matches, the call without filter
\* included.
C3_ReturnedIsQueryable ==
    \A m \in returned :
        \A task \in {None, m.task_id} :
            \A sender \in NameArgs, recipient \in NameArgs :
                LET ags == ensure_orchestrator
                IN  ( /\ sender = None
                            \/ /\ Unwrap(sender) \in DOMAIN ags
                               /\ m.sender_id = ags[Unwrap(sender)].id
                      /\ recipient = None
                            \/ /\ Unwrap(recipient) \in DOMAIN ags
                               /\ m.recipient_id = ags[Unwrap(recipient)].id )
                    => LET res == get_messages_result(ags, task, sender,
                                                      recipient)
                       IN  res.ok /\ m \in Range(res.messages)

\* Two sends have answered, one by each path, one of them for a task.
C3_Witness ==
    /\ \E m1, m2 \in returned :
          /\ m1.sender_id # m2.sender_id
          /\ m1.task_id # None
    /\ Cardinality(returned) = 2

C5_ConnectedIffLiveReceiver ==
    /\ \A n \in Names : is_connected(n) <=> Attached(n)
    /\ \A e \in list_agents_result(ensure_orchestrator) :
          e.connected <=> Attached(e.name)

\* C6: the session lifecycle of a name.  A name enters the map only in a step
\* that creates a receiver on a fresh channel for it; while it stays in the
\* map its channel is the same, whatever receivers come and go; a new receiver
\* for a name in the map is on that retained channel; a name leaves the map
\* only in a remove step, which touches no receiver and no request; and a
\* publish to a name in the map returns true exactly when receivers are
\* attached.
C6_SessionLifecycle ==
    [][/\ \A n \in Names :
            /\ (n \notin DOMAIN sessions /\ n \in DOMAIN sessions') =>
                  /\ Len(rxs') = Len(rxs) + 1
                  /\ rxs'[Len(rxs')].name = n
                  /\ rxs'[Len(rxs')].alive
                  /\ rxs'[Len(rxs')].chan = sessions'[n]
                  /\ sessions'[n] = Len(chans) + 1
                  /\ chans'[sessions'[n]] = new_channel
            /\ (n \in DOMAIN sessions /\ n \in DOMAIN sessions') =>
                  sessions'[n] = sessions[n]
            /\ (n \in DOMAIN sessions /\ n \notin DOMAIN sessions') =>
                  UNCHANGED <<rxs, reqs, agents, messages, tasks, published>>
            /\ (n \in DOMAIN sessions /\ Len(rxs') = Len(rxs) + 1
                  /\ rxs'[Len(rxs')].name = n) =>
                  rxs'[Len(rxs')].chan = sessions[n]
       /\ \A s \in DOMAIN reqs :
            (NotifyStep(s) /\ reqs[s].to \in DOMAIN sessions) =>
                last'.delivered = (rx_cnt(sessions[reqs[s].to]) > 0)]_vars

\* A name whose stream disconnected, whose channel stayed in the map without
\* receivers, and whose new stream is on that same channel.
C6_Witness ==
    \E n \in DOMAIN sessions :
        \E r1, r2 \in DOMAIN rxs :
            /\ r1 < r2
            /\ rxs[r1].name = n /\ rxs[r2].name = n
            /\ rxs[r1].chan = sessions[n] /\ rxs[r2].chan = sessions[n]
            /\ ~rxs[r1].alive /\ rxs[r2].alive
            /\ rxs[r2].start > 0

\* The events published to the channel of receiver r so far.
Published(r) == published[rxs[r].chan]

\* The place of message m in the publish order of the channel of receiver r.
PublishPos(r, m) ==
    CHOOSE p \in DOMAIN Published(r) : Published(r)[p] = AgentMessage(m)

\* The step publishes to the channel of name n.
PublishStep(s, n) ==
    NotifyStep(s) /\ reqs[s].to = n /\ Attached(n)

\* C7 (as claimed): every event published to a name while a receiver is
\* attached is observed by that receiver: what a live receiver has moved
\* past, its stream has emitted.
C7_EveryEventObserved ==
    \A r \in DOMAIN rxs :
        rxs[r].alive =>
            \A p \in (rxs[r].start + 1) .. rxs[r].next :
                Published(r)[p].msg \in Range(rxs[r].out)

\* C7 (amended): a notify to a name with attached receivers returns true and
\* enqueues the event for every one of them, and a receiver takes the events
\* published since it subscribed one by one in publish order, each emitted on
\* its stream, except that a receiver more than Capacity events behind skips
\* to the oldest retained event and never observes the ones before it.
C7_ObservedUnlessOverflow ==
    /\ [][\A s \in DOMAIN reqs : \A n \in Names :
            PublishStep(s, n) =>
              LET c == sessions[n]
                  ev == AgentMessage(Unwrap(reqs[s].msg))
              IN  /\ last'.delivered
                  /\ published'[c] = Append(published[c], ev)
                  /\ \A r \in DOMAIN rxs :
                        (rxs[r].alive /\ rxs[r].chan = c) =>
                            /\ rxs'[r] = rxs[r]
                            /\ rxs[r].next < chans'[c].pos
                            /\ chans'[c].pos = Len(published'[c])]_vars
    /\ [][\A r \in DOMAIN rxs :
            rxs'[r].next # rxs[r].next =>
              LET behind == Len(Published(r)) - rxs[r].next
              IN  IF behind <= Capacity
                  THEN /\ rxs'[r].next = rxs[r].next + 1
                       /\ rxs'[r].out =
                            Append(rxs[r].out,
                                   Published(r)[rxs[r].next + 1].msg)
                  ELSE /\ rxs'[r].next = Len(Published(r)) - Capacity
                       /\ rxs'[r].out = rxs[r].out]_vars

\* Two receivers of one name have both observed the same message, and one of
\* them has skipped an earlier one by overflow.
C7_Witness ==
    \E r1, r2 \in DOMAIN rxs :
        /\ r1 # r2 /\ rxs[r1].chan = rxs[r2].chan
        /\ rxs[r1].alive /\ rxs[r2].alive
        /\ Range(rxs[r1].out) \cap Range(rxs[r2].out) # {}
        /\ Len(rxs[r1].out) < rxs[r1].next - rxs[r1].start

\* C8: what a stream has emitted is in publish order: of two events it
\* emitted, the one emitted first was published first, also when events
\* between them were dropped for that receiver.
C8_PublishOrder ==
    \A r \in DOMAIN rxs :
        /\ \A i \in DOMAIN rxs[r].out :
              AgentMessage(rxs[r].out[i]) \in Range(Published(r))
        /\ \A i, j \in DOMAIN rxs[r].out :
              i < j => PublishPos(r, rxs[r].out[i]) < PublishPos(r, rxs[r].out[j])

\* A stream has emitted two events between which an event was dropped for it,
\* and the events were published in another order than they were persisted.
C8_Witness ==
    \E r \in DOMAIN rxs :
        /\ Len(rxs[r].out) >= 2
        /\ PublishPos(r, rxs[r].out[2]) > PublishPos(r, rxs[r].out[1]) + 1
        /\ \E p \in DOMAIN Published(r) :
              p < Len(Published(r))
              /\ Published(r)[p].msg.id > Published(r)[p + 1].msg.id

\* C9: a receiver never observes an event published before it was created.
C9_NoReplay ==
    \A r \in DOMAIN rxs :
        \A i \in DOMAIN rxs[r].out :
            /\ AgentMessage(rxs[r].out[i]) \in Range(Published(r))
            /\ PublishPos(r, rxs[r].out[i]) > rxs[r].start

\* A receiver created after a publish to its name has observed a later event
\* while the earlier one is still retained by the channel.
C9_Witness ==
    \E r \in DOMAIN rxs :
        /\ rxs[r].start > 0
        /\ rxs[r].out # << >>
        /\ oldest(chans[rxs[r].chan]) < rxs[r].start

\* The events receiver r can still take from its channel.
Pending(r) ==
    LET ch == chans[rxs[r].chan]
        from == Max(rxs[r].next, oldest(ch)) - oldest(ch) + 1
    IN  SubSeq(ch.buf, from, Len(ch.buf))

C11_TerminatedOnNextRead ==
    [][\A r \in DOMAIN rxs :
          (rxs[r].alive /\ chans[rxs[r].chan].closed /\ rxs'[r] # rxs[r]) =>
              ~rxs'[r].alive]_vars

\* C11 (amended): remove(name) takes name out of the map and closes its
\* channel without touching the receivers; a closed channel takes no further
\* event; a receiver of a closed channel can always read, each read takes the
\* next retained event (or skips to the oldest retained one) while events are
\* pending, and the read that finds none pending ends the stream; and while
\* name is out of the map notify and send_jsonrpc to it return false.
C11_RemoveClosesChannel ==
    /\ [][\A n \in Names :
            (n \in DOMAIN sessions /\ n \notin DOMAIN sessions') =>
                /\ chans'[sessions[n]].closed
                /\ chans'[sessions[n]].buf = chans[sessions[n]].buf
                /\ rxs' = rxs]_vars
    /\ [][\A c \in DOMAIN chans : chans[c].closed => chans'[c] = chans[c]]_vars
    /\ [](\A r \in DOMAIN rxs :
              (rxs[r].alive /\ chans[rxs[r].chan].closed) =>
                  ENABLED stream_poll(r))
    /\ [][\A r \in DOMAIN rxs :
            (rxs[r].alive /\ chans[rxs[r].chan].closed /\ rxs'[r] # rxs[r]
               /\ rxs'[r].alive) =>
                /\ rxs[r].next < chans[rxs[r].chan].pos
                /\ rxs'[r].next > rxs[r].next]_vars
    /\ [][\A r \in DOMAIN rxs :
            (rxs[r].alive /\ chans[rxs[r].chan].closed
               /\ rxs[r].next >= chans[rxs[r].chan].pos
               /\ rxs'[r] # rxs[r]) => ~rxs'[r].alive]_vars
    /\ [](\A n \in Names : n \notin DOMAIN sessions =>
              /\ ~notify(n, [id |-> 0]).ok
              /\ ~send_jsonrpc(n, "v").ok)
    /\ [][\A s \in DOMAIN reqs :
            (NotifyStep(s) /\ reqs[s].to \notin DOMAIN sessions) =>
                ~last'.delivered /\ chans' = chans]_vars

\* A receiver whose name was removed while an event was pending for it has
\* emitted that event and then ended, and a send to the removed name has
\* reported false.
C11_Witness ==
    \E r \in DOMAIN rxs :
        /\ ~rxs[r].alive
        /\ chans[rxs[r].chan].closed
        /\ rxs[r].next = chans[rxs[r].chan].pos
        /\ rxs[r].out # << >>
        /\ rxs[r].name \notin DOMAIN sessions
        /\ last.op \in {"agent_message", "send_message"}
        /\ last.ok /\ ~last.delivered

\* Receiver q is another receiver on the channel of r, still attached, and r
\* was closed by its client while the channel was open.
SiblingOfClosed(q, r) ==
    /\ q # r
    /\ rxs[q].chan = rxs[r].chan
    /\ rxs[q].alive /\ ~rxs[r].alive
    /\ ~chans[rxs[r].chan].closed

\* C12 (as claimed): after a client has closed one stream, every other
\* subscriber of the name receives every later event: of the events published
\* after the close, those a sibling has moved past were emitted on its stream.
C12_SiblingsReceiveEveryLaterEvent ==
    \A q, r \in DOMAIN rxs :
        SiblingOfClosed(q, r) =>
            \A p \in (Max(rxs[r].end, rxs[q].start) + 1) .. rxs[q].next :
                Published(q)[p].msg \in Range(rxs[q].out)

\* C12 (amended): a step that ends one stream changes no other receiver, no
\* channel and no map entry; a later publish to the name returns true and
\* puts the event behind what each remaining receiver has pending (the oldest
\* pending one giving way when Capacity are pending); and a remaining receiver
\* goes on taking its events one by one in publish order, skipping only what
\* overflow has overwritten.
C12_DisconnectIsolated ==
    /\ [][\A r \in DOMAIN rxs :
            (rxs[r].alive /\ ~rxs'[r].alive) =>
                /\ \A q \in DOMAIN rxs \ {r} : rxs'[q] = rxs[q]
                /\ chans' = chans /\ sessions' = sessions
                /\ published' = published /\ reqs' = reqs]_vars
    /\ [][\A s \in DOMAIN reqs : \A q, r \in DOMAIN rxs :
            (NotifyStep(s) /\ SiblingOfClosed(q, r)
               /\ reqs[s].to \in DOMAIN sessions
               /\ sessions[reqs[s].to] = rxs[q].chan) =>
                /\ last'.ok /\ last'.delivered
                /\ Pending(q)' =
                      Append(IF Len(Pending(q)) = Capacity
                             THEN Tail(Pending(q)) ELSE Pending(q),
                             AgentMessage(Unwrap(reqs[s].msg)))]_vars
    /\ [][\A q, r \in DOMAIN rxs :
            (SiblingOfClosed(q, r) /\ rxs'[q].alive /\ rxs'[q] # rxs[q]) =>
                \/ /\ rxs[q].next >= oldest(chans[rxs[q].chan])
                   /\ rxs'[q].next = rxs[q].next + 1
                   /\ rxs'[q].out =
                         Append(rxs[q].out, Published(q)[rxs'[q].next].msg)
                \/ /\ rxs[q].next < oldest(chans[rxs[q].chan])
                   /\ rxs'[q].next = oldest(chans[rxs[q].chan])
                   /\ rxs'[q].out = rxs[q].out]_vars

\* One stream of a name was closed by its client, and another stream of the
\* name has since emitted an event published after the close.
C12_Witness ==
    \E q, r \in DOMAIN rxs :
        /\ SiblingOfClosed(q, r)
        /\ \E i \in DOMAIN rxs[q].out :
              PublishPos(q, rxs[q].out[i]) > rxs[r].end

\* The step is a POST /agent/register for name n.
RegisterStep(n) ==
    /\ last'.op = "agent_register" /\ last'.name = n
    /\ \E d \in RegDescriptions : agent_register(n, d)

\* C13: register calls with the same name return the same id, in whatever
\* order they are served: the id a call returns is the id of the row of that
\* name, no step changes the id of a row or removes a row, so every later
\* call returns the id the first one did; and the registry holds one agent
\* per name, with ids that tell the agents apart.
C13_RegisterSameId ==
    /\ [][\A n \in Names :
            /\ RegisterStep(n) =>
                  /\ last'.agent_id = agents'[n].id
                  /\ n \in DOMAIN agents => last'.agent_id = agents[n].id
            /\ n \in DOMAIN agents =>
                  /\ n \in DOMAIN agents'
                  /\ agents'[n].id = agents[n].id]_vars
    /\ [](\A n \in DOMAIN agents :
              /\ agents[n].name = n
              /\ \A k \in DOMAIN agents : agents[k].id = agents[n].id => k = n)

\* A name registered at one time has been registered again at a later time,
\* and the second call has answered with the id of the first row.
C13_Witness ==
    /\ last # Internal /\ last.op = "agent_register"
    /\ agents[last.name].registered_at < agents[last.name].last_seen_at
    /\ agents[last.name].last_seen_at = now
    /\ last.agent_id = new_uuid(last.name)
    /\ Cardinality(DOMAIN agents) = 3

C15_StartedAtMostOnce ==
    [][\A t \in DOMAIN tasks :
          /\ get_ok(t)'
          /\ get(t).started_at # None =>
                get(t)'.started_at = get(t).started_at
          /\ get(t)'.id = get(t).id
          /\ get(t)'.created_at = get(t).created_at]_vars

\* A send has called mark_started, without failure, for a task that had been
\* started at an earlier time, and the task still has that earlier time.
C15_Witness ==
    \E s \in DOMAIN reqs :
        /\ reqs[s].pc # "idle"
        /\ reqs[s].known /\ IsSome(reqs[s].marked)
        /\ get(Unwrap(reqs[s].task)).started_at # None
        /\ Unwrap(get(Unwrap(reqs[s].task)).started_at)
              < Unwrap(reqs[s].marked)

\* C16 (as claimed): a task created by create_task starts with started_at
\* unset, and when a send on either path that named an existing task answers
\* its caller with success, that task's started_at is set.
C16_SendStartsTask ==
    [][/\ \A t \in DOMAIN tasks' \ DOMAIN tasks :
             get(t)'.started_at = None
       /\ \A s \in DOMAIN reqs :
             (NotifyStep(s) /\ last'.ok /\ reqs[s].known) =>
                 \A t \in {Unwrap(reqs[s].task)} :
                     get(t)'.started_at # None]_vars

\* Request r is a POST /agent/message whose task_id is well-formed and named
\* no task when the handler called mark_started.
UnknownTaskRelay(r) ==
    /\ r.pc # "idle"
    /\ r.path = "relay"
    /\ IsSome(r.task) /\ ~r.known

\* C17: POST /agent/message with a well-formed task_id that names no task
\* succeeds: the mark_started call changes no task and creates none and is no
\* error, the store accepts the message, which is persisted with that
\* task_id, and the message is published and answered as any other.
C17_UnknownTaskSucceeds ==
    /\ [][\A s \in DOMAIN reqs :
            (reqs[s].pc = "idle" /\ UnknownTaskRelay(reqs'[s])) =>
                /\ tasks' = tasks
                /\ reqs'[s].pc = "create"
                /\ last' = Internal]_vars
    /\ [](\A s \in DOMAIN reqs :
              (UnknownTaskRelay(reqs[s]) /\ reqs[s].pc = "create") =>
                  ENABLED (send_create(s) /\ reqs'[s].pc = "notify"))
    /\ [][\A s \in DOMAIN reqs :
            (UnknownTaskRelay(reqs[s]) /\ reqs[s].pc = "create"
               /\ reqs'[s].pc = "notify") =>
                /\ Len(messages') = Len(messages) + 1
                /\ messages'[Len(messages')] = Unwrap(reqs'[s].msg)
                /\ messages'[Len(messages')].task_id = reqs[s].task
                /\ tasks' = tasks]_vars
    /\ [][\A s \in DOMAIN reqs :
            (UnknownTaskRelay(reqs[s]) /\ NotifyStep(s)) =>
                /\ last'.ok /\ last'.status = 200
                /\ last'.message_id = Unwrap(reqs[s].msg).id
                /\ Unwrap(reqs[s].msg) \in Range(messages)
                /\ last'.delivered = Attached(reqs[s].to)
                /\ Attached(reqs[s].to) =>
                      published'[sessions[reqs[s].to]] =
                          Append(published[sessions[reqs[s].to]],
                                 AgentMessage(Unwrap(reqs[s].msg)))
                /\ tasks' = tasks]_vars

\* A stream has emitted a relayed message whose task_id names no task, no
\* task exists, and the relay has answered its caller.
C17_Witness ==
    /\ tasks = << >>
    /\ \E r \in DOMAIN rxs :
          /\ rxs[r].out # << >>
          /\ IsSome(rxs[r].out[1].task_id)
          /\ "a" \in DOMAIN agents
          /\ rxs[r].out[1].sender_id = agents["a"].id
          /\ rxs[r].out[1] \in returned

\* last is the answer to a get_task_status for a task that exists.
StatusAnswer ==
    /\ last # Internal
    /\ last.op = "get_task_status"
    /\ "result" \in DOMAIN last

\* C18 (as claimed): TaskStatus.compute(task, now) returns the reference
\* status: elapsed_secs and remaining_secs are those of the reference, and
\* remaining_secs is never negative.
C18_ComputeIsReference ==
    StatusAnswer =>
        LET task == get(last.task_id)
            d == now - Unwrap(task.started_at)
            elapsed == IF d >= 0 THEN d \div SubsecPerSec
                       ELSE -((-d) \div SubsecPerSec)
            ref_elapsed == IF IsSome(task.started_at) THEN Some(elapsed)
                           ELSE None
            ref_remaining ==
                IF IsSome(task.started_at) /\ IsSome(task.time_budget_secs)
                THEN Some(Max(Unwrap(task.time_budget_secs) - elapsed, 0))
                ELSE None
        IN  /\ ~last.result.panicked
            /\ last.result.elapsed_secs = ref_elapsed
            /\ last.result.remaining_secs = ref_remaining
            /\ IsSome(last.result.remaining_secs) =>
                  Unwrap(last.result.remaining_secs) >= 0

\* C19 (as claimed): with time_budget_secs = 0 and started_at set, whatever
\* it is, remaining_secs = 0.
C19_ZeroBudgetZeroRemaining ==
    (/\ StatusAnswer
     /\ get(last.task_id).time_budget_secs = Some(0)
     /\ IsSome(get(last.task_id).started_at)) =>
        /\ ~last.result.panicked
        /\ last.result.remaining_secs = Some(0)

\* C19 (amended): with time_budget_secs = 0 and started_at set,
\* remaining_secs = 0 when started_at is less than a second after now
\* (earlier, equal, or later by a fraction), and otherwise the whole seconds
\* by which started_at is ahead of now.
C19_ZeroBudgetRemaining ==
    (/\ StatusAnswer
     /\ get(last.task_id).time_budget_secs = Some(0)
     /\ IsSome(get(last.task_id).started_at)) =>
        LET ahead == Unwrap(get(last.task_id).started_at) - now
        IN  /\ ~last.result.panicked
            /\ last.result.remaining_secs =
                  Some(IF ahead < SubsecPerSec THEN 0
                       ELSE ahead \div SubsecPerSec)

\* A status was answered for a task with budget 0 whose started_at is more
\* than a second after now, with a positive remaining_secs.
C19_Witness ==
    /\ StatusAnswer
    /\ get(last.task_id).time_budget_secs = Some(0)
    /\ IsSome(get(last.task_id).started_at)
    /\ Unwrap(get(last.task_id).started_at) - now > SubsecPerSec
    /\ Unwrap(last.result.remaining_secs) > 0
    /\ Unwrap(last.result.elapsed_secs) < 0

\* The filters of a query: each field unset, or set to an id.
QueryFilters ==
    [task_id      : {None} \cup {Some(t) : t \in 1 .. MaxTask + 1},
     sender_id    : {None} \cup {Some(new_uuid(n)) : n \in Names},
     recipient_id : {None} \cup {Some(new_uuid(n)) : n \in Names}]

\* C20: after any sequence of creates, query(filter) returns exactly the
\* stored messages whose task_id, sender_id and recipient_id equal every
\* filter field that is set (an unset field matches all), each once, and the
\* result is non-decreasing in created_at.
C20_QueryExactAndOrdered ==
    \A f \in QueryFilters :
        LET result == query(f)
            selected ==
                {i \in DOMAIN messages :
                    /\ IsSome(f.task_id) => messages[i].task_id = f.task_id
                    /\ IsSome(f.sender_id) =>
                          Some(messages[i].sender_id) = f.sender_id
                    /\ IsSome(f.recipient_id) =>
                          Some(messages[i].recipient_id) = f.recipient_id}
        IN  /\ Len(result) = Cardinality(selected)
            /\ Range(result) = {messages[i] : i \in selected}
            /\ \A i \in 1 .. Len(result) - 1 :
                   result[i].created_at <= result[i + 1].created_at
\* Two messages are stored at different times: a query by recipient returns
\* both, the earlier first, and a query by sender and task returns only one.
C20_Witness ==
    /\ Len(messages) = 2
    /\ \E f \in QueryFilters :
          /\ IsSome(f.recipient_id)
          /\ Len(query(f)) = 2
          /\ query(f)[1].created_at < query(f)[2].created_at
    /\ \E f \in QueryFilters :
          /\ IsSome(f.sender_id) /\ IsSome(f.task_id)
          /\ Len(query(f)) = 1

\* C21: message history is append-only: no operation deletes a stored
\* message or changes a field of one, so the messages an unfiltered query
\* returns only grow and each keeps its fields in every later state.
C21_AppendOnly ==
    /\ [](Range(query([task_id |-> None, sender_id |-> None,
                       recipient_id |-> None])) = Range(messages))
    /\ [][/\ \A i \in DOMAIN messages :
                i \in DOMAIN messages' /\ messages'[i] = messages[i]
          /\ \A k \in DOMAIN messages' \ DOMAIN messages :
                \A i \in DOMAIN messages : messages'[k].id # messages[i].id]_vars
\* Two messages of the same sender are stored, the second after the first
\* had been stored and returned to its sender.
C21_Witness ==
    /\ Len(messages) = 2
    /\ messages[1].sender_id = messages[2].sender_id
    /\ messages[1] \in returned
    /\ messages[2] \in Range(query([task_id |-> None, sender_id |-> None,
                                     recipient_id |-> None]))

\* C22 (as claimed): a POST to /mcp or /mcp/sse returns 202 with an empty
\* body exactly when the request is a notification (id null or absent) or its
\* method is notifications/initialized; every other POST carries a JSON-RPC
\* response in its body.
C22_AcceptedIffNotification ==
    \A path \in McpPaths, body \in RpcBodies, up \in BOOLEAN :
    \A o \in {post_outcome(path, body, up, TRUE, FALSE)} :
        LET notification ==
                \/ body.id = None
                \/ body.id = Some(JsonNull)
                \/ body.method = "notifications/initialized"
        IN  /\ (o.status = 202 /\ o.body = None) <=> notification
            /\ ~notification =>
                  /\ IsSome(o.body)
                  /\ Unwrap(o.body).jsonrpc = "2.0"
                  /\ Some(Unwrap(o.body).id) = body.id

\* C23: a request with an id that is not null and a method that is none of
\* initialize, tools/list, tools/call and notifications/initialized is
\* answered 200 with a JSON-RPC error of code -32601 that echoes the id, and
\* with no result.
C23_MethodNotFound ==
    \A path \in McpPaths, body \in RpcBodies, up \in BOOLEAN :
    \A o \in {post_outcome(path, body, up, TRUE, FALSE)} :
        (/\ IsSome(body.id) /\ body.id # Some(JsonNull)
         /\ body.method \notin {"initialize", "tools/list", "tools/call",
                                "notifications/initialized"}) =>
            /\ o.status = 200
            /\ IsSome(o.body)
            /\ Some(Unwrap(o.body).id) = body.id
            /\ Unwrap(o.body).result = None
            /\ IsSome(Unwrap(o.body).error)
            /\ Unwrap(Unwrap(o.body).error).code = -32601
\* A request with id "abc" and an unknown method has been answered.
C23_Witness ==
    /\ last # Internal /\ last.op = "mcp_request"
    /\ last.status = 200
    /\ IsSome(last.body)
    /\ Unwrap(last.body).id = "abc"
    /\ IsSome(Unwrap(last.body).error)
    /\ Unwrap(Unwrap(last.body).error).message = "Method not found"

\* C24: for every JSON-RPC request and every broker state, posting it to
\* /mcp/sse yields the same status, the same body and the same state as
\* posting it to /mcp.
C24_SameTransport ==
    \A body \in RpcBodies, up \in BOOLEAN, mark_ok \in BOOLEAN,
       overflow_checks \in BOOLEAN :
        post_outcome("/mcp/sse", body, up, mark_ok, overflow_checks)
            = post_outcome("/mcp", body, up, mark_ok, overflow_checks)
\* A send_message posted to /mcp/sse has stored a message and been answered
\* with its id in the body.
C24_Witness ==
    /\ last # Internal /\ last.op = "mcp_request"
    /\ last.path = "/mcp/sse"
    /\ last.status = 200
    /\ IsSome(last.body)
    /\ IsSome(Unwrap(last.body).result)
    /\ messages # << >>
    /\ \E d \in BOOLEAN :
          Unwrap(Unwrap(last.body).result).content[1].text =
              to_string_pretty([message_id |-> messages[Len(messages)].id,
                                delivered |-> d])

\* C25: a tools/call with an id and params is always answered 200 with a
\* JSON-RPC response that echoes the id: with an error of code -32603 when a
\* lookup or the store fails (unknown recipient of send_message, unknown
\* sender or recipient name of get_messages, unknown task of
\* get_task_status, store error), and with a result that is the content
\* envelope of the tool's value when the tool succeeds.
C25_ToolFailureIsInternalError ==
    \A path \in McpPaths, body \in RpcBodies, up \in BOOLEAN,
       mark_ok \in BOOLEAN :
    \A o \in {post_outcome(path, body, up, mark_ok, FALSE)} :
        (/\ body.method = "tools/call"
         /\ IsSome(body.id) /\ body.id # Some(JsonNull)
         /\ IsSome(body.params)) =>
            LET tool == called_tool(body)
                args == IF IsSome(Unwrap(body.params).arguments)
                        THEN Unwrap(Unwrap(body.params).arguments)
                        ELSE NoArguments
                known == DOMAIN agents \cup {MCP_ORCHESTRATOR_NAME}
                unknown(n) == IsSome(n) /\ Unwrap(n) \notin known
                well_formed == args.task_id = None \/ Unwrap(args.task_id) > 0
                complete ==
                    /\ tool = "send_message" =>
                          IsSome(args.to) /\ IsSome(args.content)
                    /\ tool = "create_task" => IsSome(args.title)
                    /\ tool = "get_task_status" => IsSome(args.task_id)
                lookup_fails ==
                    \/ tool = "send_message" /\ unknown(args.to)
                    \/ tool = "get_messages"
                          /\ (unknown(args.sender) \/ unknown(args.recipient))
                    \/ tool = "get_task_status"
                          /\ Unwrap(args.task_id) \notin DOMAIN tasks
                is_tool == tool \in {"list_agents", "send_message",
                                     "get_messages", "create_task",
                                     "get_task_status"}
                resp == Unwrap(o.body)
            IN  /\ o.status = 200
                /\ IsSome(o.body)
                /\ Some(resp.id) = body.id
                /\ (resp.error = None) # (resp.result = None)
                /\ (is_tool /\ complete /\ well_formed
                       /\ (lookup_fails \/ ~up)) =>
                      /\ IsSome(resp.error)
                      /\ Unwrap(resp.error).code = -32603
                /\ (is_tool /\ complete /\ well_formed /\ ~lookup_fails
                       /\ up) => IsSome(resp.result)
                /\ IsSome(resp.result) =>
                      /\ DOMAIN Unwrap(resp.result) = {"content"}
                      /\ Len(Unwrap(resp.result).content) = 1
                      /\ Unwrap(resp.result).content[1].type = "text"
\* A send_message to a name that is not registered has been answered 200
\* with an error of code -32603, while the store was up.
C25_Witness ==
    /\ last # Internal /\ last.op = "mcp_request"
    /\ last.status = 200
    /\ IsSome(last.body)
    /\ IsSome(Unwrap(last.body).error)
    /\ Unwrap(Unwrap(last.body).error).code = -32603
    /\ Unwrap(Unwrap(last.body).error).message = "Recipient agent not found"
    /\ MCP_ORCHESTRATOR_NAME \in DOMAIN agents

\* C26 (as claimed): a tools/call with a task_id that is no UUID, or without
\* a required argument (to, content, title, task_id), is answered with
\* JSON-RPC error code -32602.
C26_InvalidInputIsInvalidParams ==
    \A path \in McpPaths, body \in RpcBodies, up \in BOOLEAN :
    \A o \in {post_outcome(path, body, up, TRUE, FALSE)} :
        (/\ body.method = "tools/call"
         /\ IsSome(body.id) /\ body.id # Some(JsonNull)
         /\ IsSome(body.params)) =>
            LET tool == called_tool(body)
                args == IF IsSome(Unwrap(body.params).arguments)
                        THEN Unwrap(Unwrap(body.params).arguments)
                        ELSE NoArguments
                malformed ==
                    /\ tool \in {"send_message", "get_messages",
                                 "get_task_status"}
                    /\ IsSome(args.task_id) /\ Unwrap(args.task_id) = 0
                missing ==
                    \/ tool = "send_message"
                          /\ (args.to = None \/ args.content = None)
                    \/ tool = "create_task" /\ args.title = None
                    \/ tool = "get_task_status" /\ args.task_id = None
            IN  (malformed \/ missing) =>
                    /\ IsSome(o.body)
                    /\ IsSome(Unwrap(o.body).error)
                    /\ Unwrap(Unwrap(o.body).error).code = -32602

\* C27 (as claimed): on every GET /mcp/sse stream the first event is one
\* endpoint event with data /mcp/sse, emitted before any message event, and
\* no later event is an endpoint event; the receiver is subscribed before
\* the handshake, so every event published after it is delivered after the
\* endpoint event: what a live stream has moved past, it has emitted.
C27_EndpointThenEveryEvent ==
    \A r \in DOMAIN rxs :
        rxs[r].kind = "mcp" =>
            /\ rxs[r].out # << >> =>
                  /\ rxs[r].out[1] = [event |-> "endpoint",
                                      data |-> "/mcp/sse"]
                  /\ \A i \in 2 .. Len(rxs[r].out) :
                        rxs[r].out[i].event = "message"
            /\ rxs[r].out = << >> => rxs[r].next = rxs[r].start
            /\ (rxs[r].alive /\ rxs[r].out # << >>) =>
                  Len(rxs[r].out) = 1 + rxs[r].next - rxs[r].start

\* C27 (amended): on every GET /mcp/sse stream the first event is one
\* endpoint event with data /mcp/sse, emitted before any message event, and
\* no later event is an endpoint event; the receiver is subscribed before
\* the handshake, at the tail of the channel, so an event published after
\* it is read after the endpoint event and emitted as one message event,
\* unless the stream is more than Capacity events behind, when it skips to
\* the oldest retained event and emits nothing for the ones before it.
C27_EndpointFirst ==
    /\ [](\A r \in DOMAIN rxs :
            rxs[r].kind = "mcp" =>
                /\ rxs[r].out # << >> =>
                      /\ rxs[r].out[1] = [event |-> "endpoint",
                                          data |-> "/mcp/sse"]
                      /\ \A i \in 2 .. Len(rxs[r].out) :
                            rxs[r].out[i].event = "message"
                /\ rxs[r].out = << >> => rxs[r].next = rxs[r].start
                /\ rxs[r].start <= rxs[r].next
                /\ rxs[r].alive => rxs[r].next <= Len(Published(r)))
    /\ [][\A r \in DOMAIN rxs' :
            (r \notin DOMAIN rxs /\ rxs'[r].kind = "mcp") =>
                /\ rxs'[r].out = << >>
                /\ rxs'[r].start = Len(published'[rxs'[r].chan])
                /\ rxs'[r].next = rxs'[r].start
                /\ sessions'[MCP_ORCHESTRATOR_NAME] = rxs'[r].chan]_vars
    /\ [][\A r \in DOMAIN rxs :
            (rxs[r].kind = "mcp" /\ rxs'[r].next # rxs[r].next) =>
                LET behind == Len(Published(r)) - rxs[r].next
                IN  /\ rxs[r].out # << >>
                    /\ IF behind <= Capacity
                       THEN /\ rxs'[r].next = rxs[r].next + 1
                            /\ Len(rxs'[r].out) = Len(rxs[r].out) + 1
                       ELSE /\ rxs'[r].next = Len(Published(r)) - Capacity
                            /\ rxs'[r].out = rxs[r].out]_vars
\* An MCP stream subscribed to a channel that had taken events before, and
\* has emitted the endpoint event and then a message event for an event
\* published after it subscribed.
C27_Witness ==
    \E r \in DOMAIN rxs :
        /\ rxs[r].kind = "mcp" /\ rxs[r].alive
        /\ rxs[r].start > 0
        /\ Len(rxs[r].out) >= 2
        /\ rxs[r].out[1].event = "endpoint"
        /\ rxs[r].out[2].event = "message"

\* C28 (as claimed): each event the MCP stream takes from the subscription
\* (an event still retained when the stream reads it) is emitted as a message
\* event by its variant: a JSON-RPC event as the value
\* itself, an agent-message event as a JSON-RPC notification with method
\* notifications/message and params.message the Message.
C28_EmittedByVariant ==
    [][\A r \in DOMAIN rxs :
        (/\ rxs[r].kind = "mcp" /\ rxs'[r].next # rxs[r].next
         /\ Len(Published(r)) - rxs[r].next <= Capacity) =>
            LET ev == Published(r)[rxs[r].next + 1]
            IN  rxs'[r].out = Append(rxs[r].out,
                    [event |-> "message",
                     data  |-> IF ev.kind = "JsonRpc" THEN ev.value
                               ELSE [jsonrpc |-> "2.0",
                                     method |-> "notifications/message",
                                     params |-> [message |-> ev.msg]]])]_vars

\* C29: a worker stream emits, for each agent-message event it takes from
\* the channel of its name (an event still retained when the stream reads
\* it), one message event carrying the Message, and
\* nothing for a JSON-RPC event; a send_jsonrpc to a name with a worker
\* stream attached returns true and is enqueued, and no stream ever emits
\* its value.
C29_AgentStreamIgnoresJsonRpc ==
    /\ [](\A r \in DOMAIN rxs :
            rxs[r].kind = "agent" =>
                \A i \in DOMAIN rxs[r].out :
                    \E p \in (rxs[r].start + 1) .. rxs[r].next :
                        Published(r)[p] = AgentMessage(rxs[r].out[i]))
    /\ [][\A r \in DOMAIN rxs :
            (/\ rxs[r].kind = "agent" /\ rxs'[r].next # rxs[r].next
             /\ Len(Published(r)) - rxs[r].next <= Capacity) =>
                LET ev == Published(r)[rxs[r].next + 1]
                IN  rxs'[r].out = IF ev.kind = "AgentMessage"
                                  THEN Append(rxs[r].out, ev.msg)
                                  ELSE rxs[r].out]_vars
    /\ [][\A n \in PushNames :
            (last'.op = "send_jsonrpc" /\ last'.name = n) =>
                /\ last'.ok = Attached(n)
                /\ rxs' = rxs
                /\ Attached(n) =>
                      published'[sessions[n]] =
                          Append(published[sessions[n]],
                                 JsonRpc(last'.value))]_vars
\* A worker stream has taken a JSON-RPC event, whose send returned true, and
\* an agent-message event, and has emitted the Message only.
C29_Witness ==
    \E r \in DOMAIN rxs :
        /\ rxs[r].kind = "agent" /\ rxs[r].alive
        /\ rxs[r].next = rxs[r].start + 2
        /\ Published(r)[rxs[r].start + 1].kind = "JsonRpc"
        /\ Published(r)[rxs[r].start + 2].kind = "AgentMessage"
        /\ rxs[r].out = <<Published(r)[rxs[r].start + 2].msg>>

\* C30: GET /agent/sse/{name} for a name that is not registered is answered
\* 404 and subscribes nothing: no channel and no receiver is created and no
\* agent row is touched; a registered name is answered 200.
C30_UnknownNameNoSubscription ==
    [][\A n \in Names :
        (last'.op = "agent_sse" /\ last'.name = n) =>
            IF n \in DOMAIN agents
            THEN last'.status = 200
            ELSE /\ last'.status = 404
                 /\ sessions' = sessions
                 /\ chans' = chans
                 /\ rxs' = rxs
                 /\ agents' = agents
                 /\ n \notin DOMAIN sessions']_vars
\* GET /agent/sse for an unregistered worker was answered 404, while the
\* other worker is registered and has a stream.
C30_Witness ==
    /\ last.op = "agent_sse" /\ last.status = 404
    /\ last.name \notin DOMAIN agents
    /\ last.name \notin DOMAIN sessions
    /\ agents # << >>
    /\ \E r \in DOMAIN rxs : rxs[r].alive

\* C31: a POST /agent/message with an unknown from or to is answered 404, one
\* with registered names and a task_id that is no UUID is answered 400, and
\* either leaves the broker as it was: no message persisted, no task marked
\* started, no event published, no request left in flight.
C31_FailedValidationNoEffect ==
    /\ [][\A s \in DOMAIN reqs, from \in Senders, to \in Workers,
            task \in TaskArgs :
            LET unknown   == ~get_by_name_ok(from) \/ ~get_by_name_ok(to)
                malformed == IsSome(task) /\ ~parse_uuid_ok(Unwrap(task))
            IN  ((unknown \/ malformed)
                    /\ agent_message_begin(s, from, to, task)) =>
                    /\ last'.op = "agent_message"
                    /\ ~last'.ok
                    /\ last'.status = IF unknown THEN 404 ELSE 400
                    /\ UNCHANGED <<agents, messages, tasks, sessions, chans,
                                   rxs, reqs, published, returned>>]_vars
    /\ [][(last'.op = "agent_message" /\ ~last'.ok
             /\ last'.status \in {400, 404}) =>
            UNCHANGED <<agents, messages, tasks, sessions, chans, rxs, reqs,
                        published, returned>>]_vars
\* POST /agent/message with a malformed task_id was answered 400 while a task
\* exists unstarted and a stream is open.
C31_Witness ==
    /\ last.op = "agent_message" /\ ~last.ok /\ last.status = 400
    /\ \E t \in DOMAIN tasks : tasks[t].started_at = None
    /\ \E r \in DOMAIN rxs : rxs[r].alive
    /\ messages = << >>

\* C32: in every reachable state the answer of the list_agents tool (given
\* after the dispatch has registered the orchestrator, or has failed to) has
\* no entry named __orchestrator__, although the registry has its row once
\* the register has succeeded, and has exactly one entry for every other
\* registered agent and none for any other name.
C32_ListExcludesOrchestrator ==
    /\ MCP_ORCHESTRATOR_NAME \in DOMAIN ensure_orchestrator
    /\ \A ags \in ensure_orchestrator_discarded :
          LET res == agent_list(ags)
          IN  /\ \A i \in DOMAIN res : res[i].name # MCP_ORCHESTRATOR_NAME
              /\ \A n \in DOMAIN ags \ {MCP_ORCHESTRATOR_NAME} :
                    Cardinality({i \in DOMAIN res : res[i].name = n}) = 1
              /\ \A i \in DOMAIN res :
                    /\ res[i].name \in DOMAIN agents
                    /\ res[i].description = agents[res[i].name].description
\* The orchestrator and both workers are registered, one worker with a
\* stream open: the list has the two workers.
C32_Witness ==
    /\ MCP_ORCHESTRATOR_NAME \in DOMAIN agents
    /\ Len(agent_list(agents)) = 2
    /\ Len(list(agents)) = 3
    /\ \E i \in DOMAIN agent_list(agents) : agent_list(agents)[i].connected

\* C33 (as claimed): the orchestrator is registered before any tool is
\* dispatched, so a send_message or create_task call always finds its row;
\* every message the send_message tool creates has the orchestrator's id as
\* sender_id, every task has it as created_by, and the id never changes.
C33_OrchestratorAlwaysResolved ==
    /\ [][(\/ last'.op \in {"send_message", "create_task"}
           \/ DOMAIN tasks' # DOMAIN tasks
           \/ \E s \in DOMAIN reqs :
                 /\ reqs[s].pc = "idle" /\ reqs'[s].pc = "create"
                 /\ reqs'[s].path = "tool") =>
              MCP_ORCHESTRATOR_NAME \in DOMAIN agents']_vars
    /\ [][\A s \in DOMAIN reqs :
            (/\ reqs[s].pc = "create" /\ reqs[s].path = "tool"
             /\ reqs'[s].pc = "notify"
             /\ Len(messages') = Len(messages) + 1) =>
                messages'[Len(messages')].sender_id =
                    agents[MCP_ORCHESTRATOR_NAME].id]_vars
    /\ [](\A t \in DOMAIN tasks :
            /\ MCP_ORCHESTRATOR_NAME \in DOMAIN agents
            /\ tasks[t].created_by = agents[MCP_ORCHESTRATOR_NAME].id)
    /\ [][(MCP_ORCHESTRATOR_NAME \in DOMAIN agents) =>
            (/\ MCP_ORCHESTRATOR_NAME \in DOMAIN agents'
             /\ agents'[MCP_ORCHESTRATOR_NAME].id
                   = agents[MCP_ORCHESTRATOR_NAME].id)]_vars

C35_PublishIsolated ==
    [][\A s \in DOMAIN reqs :
        (/\ reqs[s].pc = "held" /\ reqs'[s].pc = "idle"
         /\ reqs[s].call \in {"notify", "send_jsonrpc", "is_connected"}) =>
            LET n   == reqs[s].name
                pub == reqs[s].call # "is_connected" /\ n \in DOMAIN sessions
                ev  == IF reqs[s].call = "notify"
                       THEN AgentMessage(LockMessage) ELSE JsonRpc(LockValue)
            IN  /\ sessions' = sessions
                /\ Len(chans') = Len(chans)
                /\ rxs' = rxs
                /\ \A c \in DOMAIN chans :
                      (~pub \/ c # sessions[n]) =>
                          /\ chans'[c] = chans[c]
                          /\ published'[c] = published[c]
                /\ \A r \in DOMAIN rxs :
                      IF pub /\ rxs[r].chan = sessions[n]
                      THEN rxs[r].alive =>
                              /\ last'.ok
                              /\ Pending(r)' =
                                    LET p == Append(Pending(r), ev)
                                    IN  IF Len(p) > Capacity
                                        THEN Tail(p) ELSE p
                      ELSE Pending(r)' = Pending(r)]_vars
\* A notify to "a" was enqueued for the receiver of "a" while the receiver of
\* "b" has nothing pending.
C35_Witness ==
    /\ last.op = "notify" /\ last.ok /\ last.name = "a"
    /\ {"a", "b"} \subseteq DOMAIN sessions
    /\ \E r \in DOMAIN rxs :
          /\ rxs[r].alive /\ rxs[r].chan = sessions["a"]
          /\ Pending(r) = <<AgentMessage(LockMessage)>>
    /\ \E r \in DOMAIN rxs :
          /\ rxs[r].alive /\ rxs[r].chan = sessions["b"]
          /\ Pending(r) = << >>

\* C36 (as claimed): when message_store.create fails, POST /agent/message
\* answers 500 and the send_message tool a JSON-RPC error -32603, nothing is
\* published and no message is stored; all the request has changed is
\* started_at of the task it named, set by the earlier mark_started.
C36_CreateFailureLeavesOnlyMark ==
    /\ [][\A s \in DOMAIN reqs :
            (reqs[s].pc = "create" /\ reqs'[s].pc = "idle") =>
                /\ ~last'.ok
                /\ IF reqs[s].path = "relay"
                   THEN last'.op = "agent_message" /\ last'.status = 500
                   ELSE /\ last'.op = "send_message" /\ last'.status = 200
                        /\ last'.code = -32603
                /\ UNCHANGED <<agents, messages, tasks, sessions, chans, rxs,
                               published, returned>>]_vars
    /\ [][\A s \in DOMAIN reqs :
            (reqs[s].pc = "idle" /\ reqs'[s].pc = "create") =>
                /\ agents' = agents
                /\ UNCHANGED <<messages, sessions, chans, rxs, published,
                               returned>>
                /\ DOMAIN tasks' = DOMAIN tasks
                /\ \A t \in DOMAIN tasks :
                      \/ tasks'[t] = tasks[t]
                      \/ /\ reqs'[s].task = Some(t)
                         /\ tasks[t].started_at = None
                         /\ tasks'[t] = [tasks[t] EXCEPT
                                            !.started_at = Some(now)]]_vars

\* C36 (amended): the same, and on the tool path the request has also
\* registered the orchestrator (or refreshed its row) before the dispatch.
C36_CreateFailureLeavesMarkAndRegistration ==
    /\ [][\A s \in DOMAIN reqs :
            (reqs[s].pc = "create" /\ reqs'[s].pc = "idle") =>
                /\ ~last'.ok
                /\ IF reqs[s].path = "relay"
                   THEN last'.op = "agent_message" /\ last'.status = 500
                   ELSE /\ last'.op = "send_message" /\ last'.status = 200
                        /\ last'.code = -32603
                /\ UNCHANGED <<agents, messages, tasks, sessions, chans, rxs,
                               published, returned>>]_vars
    /\ [][\A s \in DOMAIN reqs :
            (reqs[s].pc = "idle" /\ reqs'[s].pc = "create") =>
                /\ IF reqs'[s].path = "relay" THEN agents' = agents
                   ELSE agents' \in {agents, ensure_orchestrator}
                /\ UNCHANGED <<messages, sessions, chans, rxs, published,
                               returned>>
                /\ DOMAIN tasks' = DOMAIN tasks
                /\ \A t \in DOMAIN tasks :
                      \/ tasks'[t] = tasks[t]
                      \/ /\ reqs'[s].task = Some(t)
                         /\ tasks[t].started_at = None
                         /\ tasks'[t] = [tasks[t] EXCEPT
                                            !.started_at = Some(now)]]_vars
\* No worker can relay (the sender is not registered), no request is in
\* flight, a task has been started and no message is stored: the create of a
\* send_message tool call failed after its mark_started, and the tool has
\* answered with an error.
C36_Witness ==
    /\ last.op = "send_message" /\ ~last.ok
    /\ "a" \notin DOMAIN agents
    /\ MCP_ORCHESTRATOR_NAME \in DOMAIN agents
    /\ InFlight = {}
    /\ messages = << >>
    /\ \E t \in DOMAIN tasks : tasks[t].started_at # None
    /\ \E r \in DOMAIN rxs : rxs[r].alive /\ Published(r) = << >>


\* C37: a subscribe that follows a remove of the name works on a fresh
\* channel.  The map holds open channels only; a subscribe of a name that is
\* out of the map makes a new, empty channel with the new receiver as its
\* only one and touches no receiver that exists; a closed channel takes no
\* further event and a stream emits only what was published to its own
\* channel, so a receiver from before the remove sees nothing published
\* after it; and notify answers by the receivers on the channel now in the
\* map, all of them created after every receiver of a removed channel.
C37_FreshChannelAfterRemove ==
    /\ [](\A n \in DOMAIN sessions : ~chans[sessions[n]].closed)
    /\ [][\A n \in Names :
            (n \notin DOMAIN sessions /\ n \in DOMAIN sessions') =>
                /\ sessions'[n] = Len(chans) + 1
                /\ chans' = Append(chans, new_channel)
                /\ published'[sessions'[n]] = << >>
                /\ Len(rxs') = Len(rxs) + 1
                /\ rxs'[Len(rxs')].chan = sessions'[n]
                /\ rxs'[Len(rxs')].next = 0
                /\ \A r \in DOMAIN rxs :
                      rxs'[r] = rxs[r] /\ rxs[r].chan # sessions'[n]]_vars
    /\ [][\A c \in DOMAIN chans :
            chans[c].closed =>
                published'[c] = published[c] /\ chans'[c] = chans[c]]_vars
    /\ [](\A r \in DOMAIN rxs : \A i \in DOMAIN rxs[r].out :
              AgentMessage(rxs[r].out[i]) \in Range(Published(r)))
    /\ [](\A n \in Names :
              notify(n, [id |-> 0]).ok <=>
                  /\ n \in DOMAIN sessions
                  /\ \E q \in DOMAIN rxs :
                        rxs[q].alive /\ rxs[q].chan = sessions[n])
    /\ [](\A r, q \in DOMAIN rxs :
              (/\ rxs[r].name = rxs[q].name
               /\ chans[rxs[r].chan].closed
               /\ ~chans[rxs[q].chan].closed) => r < q)

\* A receiver taken before the remove is still attached to the closed
\* channel; the receiver of the subscribe after the remove has emitted an
\* event published after the remove, which the old one has not, and has then
\* been dropped; the send that followed reported that nothing was delivered.
C37_Witness ==
    \E r, q \in DOMAIN rxs :
        /\ rxs[r].name = FanName /\ rxs[q].name = FanName
        /\ rxs[r].alive /\ chans[rxs[r].chan].closed
        /\ rxs[r].out = << >>
        /\ FanName \in DOMAIN sessions /\ sessions[FanName] = rxs[q].chan
        /\ rxs[q].out # << >>
        /\ ~rxs[q].alive
        /\ last.op = "agent_message" /\ last.ok /\ ~last.delivered


\* C38: a POST to an MCP path whose id is null, or whose method is
\* notifications/initialized, is answered 202 without a body and has no
\* effect, whatever its method and params: the registry (so no orchestrator
\* row is made or refreshed), the tasks, the history, the channels and what
\* was published stay as they are; and a step answered 202 changes nothing
\* but the response.
C38_NotificationNoEffect ==
    /\ [](\A path \in McpPaths, body \in RpcBodies, up \in BOOLEAN,
             mark_ok \in BOOLEAN, overflow_checks \in BOOLEAN :
          (/\ IsSome(body.id)
           /\ \/ body.id = Some(JsonNull)
              \/ body.method = "notifications/initialized") =>
              \A o \in {post_outcome(path, body, up, mark_ok,
                                     overflow_checks)} :
                  /\ o.status = 202 /\ o.body = None
                  /\ o.agents = agents
                  /\ o.tasks = tasks
                  /\ o.messages = messages
                  /\ o.chans = chans
                  /\ o.published = published
                  /\ o.returned = returned)
    /\ [][(last'.op = "mcp_request" /\ last'.status = 202) =>
              UNCHANGED <<agents, tasks, messages, now, sessions, chans, rxs,
                          reqs, published, returned>>]_vars

\* A notification has been answered while the orchestrator was never
\* registered, worker a was subscribed and nothing was stored or published.
C38_Witness ==
    /\ last.op = "mcp_request" /\ last.status = 202
    /\ MCP_ORCHESTRATOR_NAME \notin DOMAIN agents
    /\ messages = << >> /\ tasks = << >>
    /\ \E r \in DOMAIN rxs : rxs[r].alive /\ Published(r) = << >>


\* C39: a message persisted for a task that existed when the send was
\* handled, by a send whose mark_started call did not fail, is the message of
\* a started task.  From the mark_started call on, through the create and
\* the notify, the task named by such a request exists and has started_at
\* set; the create appends the message with that task_id in a state where
\* this holds; and no step resets started_at or removes a task, so it holds
\* for as long as the message is in the history.
C39_PersistedForStartedTask ==
    /\ [](\A s \in DOMAIN reqs :
              (/\ reqs[s].pc \in {"create", "notify"}
               /\ reqs[s].known /\ reqs[s].marked # None) =>
                  \A t \in {Unwrap(reqs[s].task)} :
                      /\ t \in DOMAIN tasks
                      /\ tasks[t].started_at # None)
    /\ [][\A s \in DOMAIN reqs :
            (reqs[s].pc = "create" /\ reqs'[s].pc = "notify") =>
                /\ Len(messages') = Len(messages) + 1
                /\ messages'[Len(messages')].task_id = reqs[s].task
                /\ reqs'[s].msg = Some(messages'[Len(messages')])
                /\ (reqs[s].known /\ reqs[s].marked # None) =>
                      \A t \in {Unwrap(reqs[s].task)} :
                          /\ tasks'[t].started_at # None
                          /\ tasks[t].started_at # None]_vars
    /\ [][\A t \in DOMAIN tasks :
            /\ t \in DOMAIN tasks'
            /\ tasks[t].started_at # None =>
                  tasks'[t].started_at = tasks[t].started_at]_vars

\* Both send paths have persisted a message for the same existing task, the
\* later one while the first was in the history, and the task is started at
\* the time of the first mark_started.
C39_Witness ==
    \E i, j \in DOMAIN messages : \E t \in DOMAIN tasks :
        /\ i < j
        /\ messages[i].task_id = Some(t) /\ messages[j].task_id = Some(t)
        /\ messages[i].sender_id # messages[j].sender_id
        /\ MCP_ORCHESTRATOR_NAME \in DOMAIN agents
        /\ agents[MCP_ORCHESTRATOR_NAME].id
              \in {messages[i].sender_id, messages[j].sender_id}
        /\ tasks[t].started_at # None
        /\ Unwrap(tasks[t].started_at) <= messages[i].created_at
        /\ messages[i].created_at < messages[j].created_at


\* Receiver r is attached and the ring has overwritten events it had not
\* read.
Overflowed(r) == rxs[r].alive /\ rxs[r].next < oldest(chans[rxs[r].chan])

\* C40 (as claimed): a stream that has lost events to overflow skips the lag
\* indication and delivers the retained and all later events: the read of an
\* overflowed receiver emits nothing and does not end the stream, and it
\* happens only to a stream that has lost nothing before.
C40_AllLaterEventsDelivered ==
    [][\A r \in DOMAIN rxs :
          (Overflowed(r) /\ stream_poll(r)) =>
              /\ rxs'[r].alive
              /\ rxs'[r].out = rxs[r].out
              /\ rxs[r].next - rxs[r].start = Len(rxs[r].out)]_vars

\* C40 (amended): an overflowed stream can always be read; that read emits
\* nothing, leaves the stream open and moves the receiver to the oldest
\* retained event; every other read of an open stream delivers the next
\* event in publish order, and a read ends the stream only when the channel
\* is closed and drained; so the stream delivers the retained and the later
\* events in publish order, except those a further overflow overwrites
\* before they are read.
C40_StreamSurvivesOverflow ==
    /\ [](\A r \in DOMAIN rxs : Overflowed(r) => ENABLED stream_poll(r))
    /\ [][\A r \in DOMAIN rxs :
            (Overflowed(r) /\ stream_poll(r)) =>
                /\ rxs'[r].alive
                /\ rxs'[r].out = rxs[r].out
                /\ rxs'[r].next = oldest(chans[rxs[r].chan])
                /\ Len(Pending(r)') = Capacity]_vars
    /\ [][\A r \in DOMAIN rxs :
            (~Overflowed(r) /\ stream_poll(r) /\ rxs'[r].alive) =>
                /\ rxs'[r].next = rxs[r].next + 1
                /\ rxs'[r].out =
                      Append(rxs[r].out, Published(r)[rxs[r].next + 1].msg)]_vars
    /\ [][\A r \in DOMAIN rxs :
            (stream_poll(r) /\ ~rxs'[r].alive) =>
                /\ chans[rxs[r].chan].closed
                /\ rxs[r].next = chans[rxs[r].chan].pos]_vars
    /\ [](\A r \in DOMAIN rxs : \A i, j \in DOMAIN rxs[r].out :
              i < j => PublishPos(r, rxs[r].out[i])
                          < PublishPos(r, rxs[r].out[j]))

\* A stream that lost its first event to overflow is still open and has
\* delivered the two events retained at the time and the one published
\* after the skip, in publish order.
C40_Witness ==
    \E r \in DOMAIN rxs :
        /\ rxs[r].alive
        /\ Len(rxs[r].out) = 3
        /\ PublishPos(r, rxs[r].out[1]) = rxs[r].start + 2
        /\ rxs[r].next = Len(Published(r))
        /\ rxs[r].next - rxs[r].start = 4

====
